---- MODULE Spec2Model ----
(***************************************************************************)
(* A model of the lightoladb query executor: the table registry held by    *)
(* SQLExecutor, the MemoryStorage engine behind each registered table, and *)
(* the six statement handlers reached through SQLExecutor::execute.        *)
(* Statements enter the model as the AST the parser hands to the executor. *)
(***************************************************************************)
EXTENDS Integers, Sequences, FiniteSets, TLC

(***************************************************************************)
(* Bounds of the model.                                                    *)
(***************************************************************************)
\* the number of blocks stored over all tables (one block per successful INSERT)
MaxBlocks == 2
\* the largest LIMIT count a SELECT is given
MaxLimit == 2
\* the number of threads that execute an INSERT concurrently
NumWriters == 2

(***************************************************************************)
(* Inputs: names, literal tokens, column lists.                            *)
(***************************************************************************)
TableNames == {"t", "u"}

\* a literal is the sequence of its characters
Tok1 == <<"1">>
Tok2 == <<"2">>
TokX == <<"x">>

Row1 == <<Tok1, TokX>>
Row2 == <<Tok2, TokX>>
Row3 == <<TokX, Tok1>>

\* the INSERT statements: <<ast.column_names, ast.values>>
InsertStatements ==
    { << <<>>, <<>> >>,                         \* no value tuple
      << <<>>, <<Row1, Row2>> >>,
      << <<>>, <<Row2, Row3>> >>,               \* "x" for the Int8 column, second row
      << <<>>, <<Row1, <<Tok1>>>> >>,           \* a short second row
      << <<>>, <<<<>>>> >>,                     \* an empty tuple
      << <<"b", "a">>, <<Row3>> >>,
      << <<"b", "b">>, <<Row3>> >>,
      << <<"a">>, <<<<Tok1>>>> >>,
      << <<"c">>, <<<<Tok1>>>> >> }

\* the column definitions of one CREATE TABLE statement (ast.columns)
CreateColumnLists ==
    { <<>>,
      << <<"a", "Int8">>, <<"b", "String">> >>,
      << <<"a", "Text">> >> }

\* one expression of a SELECT list
Col(column) == [column |-> column, alias |-> "", agg_type |-> "NONE"]
Agg(agg_type, column) == [column |-> column, alias |-> "", agg_type |-> agg_type]

\* the projections a SELECT is given: <<select_all, columns>>
ProjectionLists ==
    { <<TRUE, <<>>>>,
      <<FALSE, <<Col("b"), Col("a")>>>>,
      <<FALSE, <<Col("a"), Col("a")>>>>,
      <<FALSE, <<[column |-> "b", alias |-> "x", agg_type |-> "NONE"]>>>>,
      <<FALSE, <<Col("c")>>>> }

\* the aggregate lists a SELECT is given
AggregateLists ==
    { <<Agg("COUNT", "*")>>, <<Agg("COUNT", "b")>>,
      <<Agg("SUM", "a")>>, <<Agg("AVG", "a")>>,
      <<Agg("MIN", "a")>>, <<Agg("MAX", "a")>>,
      <<Agg("SUM", "b")>>, <<Agg("AVG", "b")>>,
      <<Agg("MIN", "b")>>, <<Agg("MAX", "b")>>,
      <<Col("a"), Agg("COUNT", "*"), Agg("MAX", "a")>> }

EngineNames == {"Memory", "Disk"}

\* the text a DROP TABLE statement carries between TABLE and the table name
IfExistsText == <<"I", "F", " ", "E", "X", "I", "S", "T", "S">>
DropClauses ==
    { <<>>,
      IfExistsText,
      <<"i", "f", " ", "e", "x", "i", "s", "t", "s">>,
      <<"I", "f", " ", "E", "x", "i", "s", "t", "s">>,
      <<"I", "F", " ", " ", "E", "X", "I", "S", "T", "S">> }

\* the order std::sort puts the column names in
NameRank == [n \in {"a", "b", "c", "*"} |->
                CASE n = "*" -> 0 [] n = "a" -> 1 [] n = "b" -> 2 [] n = "c" -> 3]

(***************************************************************************)
(* Sequence helpers.                                                       *)
(***************************************************************************)
Range(s) == {s[i] : i \in DOMAIN s}

RECURSIVE SumSeq(_)
SumSeq(s) == IF s = <<>> THEN 0 ELSE s[1] + SumSeq(Tail(s))

RECURSIVE Flatten(_)
Flatten(ss) == IF ss = <<>> THEN <<>> ELSE ss[1] \o Flatten(Tail(ss))

(***************************************************************************)
(* Literal conversion: std::stoi followed by the cast to the column kind.  *)
(***************************************************************************)
DigitValue == [c \in {"0", "1", "2", "3", "4", "5", "6", "7", "8", "9"} |->
                 CASE c = "0" -> 0 [] c = "1" -> 1 [] c = "2" -> 2 [] c = "3" -> 3
                   [] c = "4" -> 4 [] c = "5" -> 5 [] c = "6" -> 6 [] c = "7" -> 7
                   [] c = "8" -> 8 [] c = "9" -> 9]

\* the number of leading characters of s, from position i, that are digits
DigitRun(s, i) ==
    Cardinality({k \in i..Len(s) : \A j \in i..k : s[j] \in DOMAIN DigitValue})

IntMax == 2147483647
IntMin == (0 - IntMax) - 1

RECURSIVE SkipSpace(_, _)
SkipSpace(s, i) == IF i <= Len(s) /\ s[i] = " " THEN SkipSpace(s, i + 1) ELSE i

\* static_cast<int8_t>(int), static_cast<int16_t>(int)
CastInt8(v) == (((v % 256) + 128) % 256) - 128
CastInt16(v) == (((v % 65536) + 32768) % 65536) - 32768

\* a stored value carries its kind: "i" for an integer, "s" for text
IntValue(v) == [k |-> "i", v |-> v]
StrValue(s) == [k |-> "s", v |-> s]

(***************************************************************************)
(* Integers of 64 bits. A magnitude is five words of 16 bits, the most     *)
(* significant first, which holds every sum the model forms. An integer    *)
(* value that TLC's integers hold is IntValue(v); any other is the record  *)
(* of its sign and magnitude, so that each number has one form.            *)
(***************************************************************************)
Zero == <<0, 0, 0, 0, 0>>
TwoPow31 == <<0, 0, 0, 32768, 0>>
TwoPow32 == <<0, 0, 1, 0, 0>>
TwoPow63 == <<0, 32768, 0, 0, 0>>
TwoPow64 == <<1, 0, 0, 0, 0>>

\* the magnitude of a natural number that TLC holds
Words(n) == <<0, 0, 0, n \div 65536, n % 65536>>

BigLess(a, b) == \E i \in 1..5 : a[i] < b[i] /\ \A j \in 1..(i - 1) : a[j] = b[j]

\* a + b: word i takes a carry when a less significant word overflows and
\* every word between the two is full
BigAdd(a, b) ==
    LET carry(i) == \E j \in (i + 1)..5 :
                       /\ a[j] + b[j] >= 65536
                       /\ \A k \in (i + 1)..(j - 1) : a[k] + b[k] = 65535
    IN  [i \in 1..5 |-> (a[i] + b[i] + (IF carry(i) THEN 1 ELSE 0)) % 65536]

\* a - b for a >= b
BigSub(a, b) ==
    LET borrow(i) == \E j \in (i + 1)..5 :
                        /\ a[j] < b[j]
                        /\ \A k \in (i + 1)..(j - 1) : a[k] = b[k]
    IN  [i \in 1..5 |-> (a[i] - b[i] - (IF borrow(i) THEN 1 ELSE 0) + 65536) % 65536]

\* a * m + d for m <= 10^4 and d < 10^4; over: the result needs a sixth word
MulAdd(a, m, d) ==
    LET t5 == a[5] * m + d
        t4 == a[4] * m + t5 \div 65536
        t3 == a[3] * m + t4 \div 65536
        t2 == a[2] * m + t3 \div 65536
        t1 == a[1] * m + t2 \div 65536
    IN  [mag |-> <<t1 % 65536, t2 % 65536, t3 % 65536, t4 % 65536, t5 % 65536>>,
         over |-> t1 >= 65536]

\* quotient and remainder of a by m <= 10^4
DivMod(a, m) ==
    LET t2 == (a[1] % m) * 65536 + a[2]
        t3 == (t2 % m) * 65536 + a[3]
        t4 == (t3 % m) * 65536 + a[4]
        t5 == (t4 % m) * 65536 + a[5]
    IN  [quot |-> <<a[1] \div m, t2 \div m, t3 \div m, t4 \div m, t5 \div m>>,
         rem |-> t5 % m]

\* the low bits of a magnitude: the conversion to an unsigned kind of that width
LowBits(a, bits) ==
    CASE bits = 8  -> <<0, 0, 0, 0, a[5] % 256>>
      [] bits = 16 -> <<0, 0, 0, 0, a[5]>>
      [] bits = 32 -> <<0, 0, 0, a[4], a[5]>>
      [] bits = 64 -> <<0, a[2], a[3], a[4], a[5]>>

\* the number a sequence of at most four decimal digits writes
RECURSIVE NatOf(_)
NatOf(d) == IF d = <<>> THEN 0 ELSE NatOf(SubSeq(d, 1, Len(d) - 1)) * 10 + d[Len(d)]

\* the magnitude the first n of the decimal digits ds write, four digits at a time
RECURSIVE MagOfDigits(_, _)
MagOfDigits(ds, n) ==
    IF n <= 4 THEN [mag |-> Words(NatOf(SubSeq(ds, 1, n))), over |-> FALSE]
    ELSE LET p == MagOfDigits(ds, n - 4)
         IN  IF p.over THEN p
             ELSE MulAdd(p.mag, 10000, NatOf(SubSeq(ds, n - 3, n)))

\* the decimal digits of a magnitude, in groups of four, zeros in front included
RECURSIVE DecimalGroups(_)
DecimalGroups(a) ==
    IF a = Zero THEN <<>>
    ELSE LET qr == DivMod(a, 10000)
         IN  DecimalGroups(qr.quot) \o
             <<qr.rem \div 1000, (qr.rem \div 100) % 10, (qr.rem \div 10) % 10, qr.rem % 10>>

\* the decimal digits of a magnitude, most significant first (zero is <<0>>)
DecimalDigits(a) ==
    LET d  == DecimalGroups(a)
        nz == {i \in DOMAIN d : d[i] # 0}
    IN  IF nz = {} THEN <<0>>
        ELSE SubSeq(d, CHOOSE i \in nz : \A j \in nz : i <= j, Len(d))

\* the one form of the integer with that sign and magnitude
FromBig(neg, mag) ==
    IF BigLess(mag, TwoPow31)
    THEN IntValue(IF neg THEN 0 - (mag[4] * 65536 + mag[5]) ELSE mag[4] * 65536 + mag[5])
    ELSE IF neg /\ mag = TwoPow31 THEN IntValue(IntMin)
    ELSE [k |-> "n", neg |-> neg, mag |-> mag]

\* sign and magnitude of a stored integer
ToBig(value) ==
    IF value.k = "n" THEN [neg |-> value.neg, mag |-> value.mag]
    ELSE IF value.v = IntMin THEN [neg |-> TRUE, mag |-> TwoPow31]
    ELSE IF value.v < 0 THEN [neg |-> TRUE, mag |-> Words(0 - value.v)]
    ELSE [neg |-> FALSE, mag |-> Words(value.v)]

\* x + y over the integers
SignedAdd(x, y) ==
    IF x.neg = y.neg THEN [neg |-> x.neg, mag |-> BigAdd(x.mag, y.mag)]
    ELSE IF BigLess(x.mag, y.mag) THEN [neg |-> y.neg, mag |-> BigSub(y.mag, x.mag)]
    ELSE [neg |-> x.neg /\ x.mag # y.mag, mag |-> BigSub(x.mag, y.mag)]

\* x <= y over the integers
SignedLeq(x, y) ==
    IF x.neg /\ ~y.neg THEN TRUE
    ELSE IF ~x.neg /\ y.neg THEN x.mag = Zero /\ y.mag = Zero
    ELSE IF x.neg THEN ~BigLess(x.mag, y.mag)
    ELSE ~BigLess(y.mag, x.mag)

\* the prefix the strtol family reads: leading blanks, an optional sign, the
\* longest run of digits; what follows the digits is ignored
ParseNumber(s) ==
    LET i0  == SkipSpace(s, 1)
        neg == i0 <= Len(s) /\ s[i0] = "-"
        i1  == IF i0 <= Len(s) /\ s[i0] \in {"-", "+"} THEN i0 + 1 ELSE i0
        n   == DigitRun(s, i1)
        m   == MagOfDigits([j \in 1..n |-> DigitValue[s[i1 + j - 1]]], n)
    IN  [found |-> n > 0, neg |-> neg, mag |-> m.mag, over |-> m.over]

\* std::stoi. No digit: invalid_argument. Outside int: out_of_range.
stoi(s) ==
    LET of(p) ==
            IF ~p.found THEN [ok |-> FALSE, v |-> 0]
            ELSE IF p.over \/ (~p.neg /\ ~BigLess(p.mag, TwoPow31))
                           \/ (p.neg /\ BigLess(TwoPow31, p.mag))
            THEN [ok |-> FALSE, v |-> 0]
            ELSE [ok |-> TRUE, v |-> FromBig(p.neg, p.mag).v]
    IN  of(ParseNumber(s))

\* std::stoll: out_of_range outside [-2^63, 2^63 - 1]
stoll(s) ==
    LET of(p) ==
            IF ~p.found THEN [ok |-> FALSE, v |-> IntValue(0)]
            ELSE IF p.over \/ (~p.neg /\ ~BigLess(p.mag, TwoPow63))
                           \/ (p.neg /\ BigLess(TwoPow63, p.mag))
            THEN [ok |-> FALSE, v |-> IntValue(0)]
            ELSE [ok |-> TRUE, v |-> FromBig(p.neg /\ p.mag # Zero, p.mag)]
    IN  of(ParseNumber(s))

\* std::stoul and std::stoull, unsigned long having 64 bits: out_of_range from
\* 2^64 on; a minus sign negates the value modulo 2^64. u: the magnitude read
stoul(s) ==
    LET of(p) ==
            IF ~p.found \/ p.over \/ ~BigLess(p.mag, TwoPow64)
            THEN [ok |-> FALSE, u |-> Zero]
            ELSE [ok |-> TRUE,
                  u |-> IF p.neg /\ p.mag # Zero THEN BigSub(TwoPow64, p.mag) ELSE p.mag]
    IN  of(ParseNumber(s))

\* the numeral std::stof and std::stod read, kept as text: a floating value
\* is not computed with
FloatValue(s) == [k |-> "r", text |-> s]

\* the switch of executeInsert's fill loop for one value
ConvertValue(type, value_str) ==
    LET bad == [ok |-> FALSE, v |-> IntValue(0)]
        \* the int std::stoi returned, cast to the signed kind of that width
        signed(r, bits) ==
            IF r.ok
            THEN [ok |-> TRUE,
                  v |-> IntValue(CASE bits = 8  -> CastInt8(r.v)
                                   [] bits = 16 -> CastInt16(r.v)
                                   [] bits = 32 -> r.v)]
            ELSE bad
        \* the unsigned long std::stoul returned, converted to that width
        unsigned(r, bits) ==
            IF r.ok THEN [ok |-> TRUE, v |-> FromBig(FALSE, LowBits(r.u, bits))]
            ELSE bad
    IN  CASE type = "Int8"   -> signed(stoi(value_str), 8)
          [] type = "Int16"  -> signed(stoi(value_str), 16)
          [] type = "Int32"  -> signed(stoi(value_str), 32)
          [] type = "Int64"  -> stoll(value_str)
          [] type = "UInt8"  -> unsigned(stoul(value_str), 8)
          [] type = "UInt16" -> unsigned(stoul(value_str), 16)
          [] type = "UInt32" -> unsigned(stoul(value_str), 32)
          [] type = "UInt64" -> unsigned(stoul(value_str), 64)
          [] type \in {"Float32", "Float64"} ->
                IF ParseNumber(value_str).found
                THEN [ok |-> TRUE, v |-> FloatValue(value_str)] ELSE bad
          [] type = "String" -> [ok |-> TRUE, v |-> StrValue(value_str)]
          [] OTHER -> bad

(***************************************************************************)
(* parseInsert's value tokens and Field::toString. Text is a sequence of   *)
(* one-character strings.                                                  *)
(***************************************************************************)
\* the characters of the class [\w\.]
WordChars ==
    DOMAIN DigitValue \cup
    {"a", "b", "c", "d", "e", "f", "g", "h", "i", "j", "k", "l", "m", "n", "o", "p",
     "q", "r", "s", "t", "u", "v", "w", "x", "y", "z",
     "A", "B", "C", "D", "E", "F", "G", "H", "I", "J", "K", "L", "M", "N", "O", "P",
     "Q", "R", "S", "T", "U", "V", "W", "X", "Y", "Z", "_", "."}

\* the position of the next c at or after i, 0 when there is none
findChar(s, c, i) ==
    LET at == {j \in i..Len(s) : s[j] = c}
    IN  IF at = {} THEN 0 ELSE CHOOSE j \in at : \A o \in at : j <= o

\* the length of the run of word characters that starts at i
wordRun(s, i) ==
    Cardinality({k \in i..Len(s) : \A j \in i..k : s[j] \in WordChars})

\* the matches of value_regex in a tuple's text from position i on: the content
\* of a quoted token, or a maximal run of word characters; every other
\* character, a minus sign included, lies between two matches and is dropped
RECURSIVE valueTokens(_, _)
valueTokens(row_str, i) ==
    IF i > Len(row_str) THEN <<>>
    ELSE LET c     == row_str[i]
             close == IF c \in {"'", "\""} THEN findChar(row_str, c, i + 1) ELSE 0
         IN  IF close > 0
             THEN <<SubSeq(row_str, i + 1, close - 1)>> \o valueTokens(row_str, close + 1)
             ELSE IF c \in WordChars
             THEN LET n == wordRun(row_str, i)
                  IN  <<SubSeq(row_str, i, i + n - 1)>> \o valueTokens(row_str, i + n)
             ELSE valueTokens(row_str, i + 1)

\* the decimal digits of a magnitude as text
DigitChar == [d \in 0..9 |-> CHOOSE c \in DOMAIN DigitValue : DigitValue[c] = d]

\* Field::toString for the integer kinds and String
toString(value) ==
    IF value.k = "s" THEN value.v
    ELSE LET b == ToBig(value)
             d == DecimalDigits(b.mag)
         IN  (IF b.neg THEN <<"-">> ELSE <<>>) \o [j \in DOMAIN d |-> DigitChar[d[j]]]

(***************************************************************************)
(* TableStructure: the ordered column definitions plus the name lookup.    *)
(* A structure is the sequence of its definitions [name, type]; the lookup *)
(* column_indices is a function of it, since addColumn overwrites the      *)
(* entry of a name that is added again.                                    *)
(***************************************************************************)
\* an addColumn that puts the new definition in front of the others
addColumn_front(structure, name, type) == <<[name |-> name, type |-> type]>> \o structure

addColumn(structure, name, type) == Append(structure, [name |-> name, type |-> type])

hasColumn(structure, name) == \E i \in DOMAIN structure : structure[i].name = name

\* column_indices[name]: the position of the last definition added under name
getColumnIndex(structure, name) ==
    CHOOSE i \in DOMAIN structure :
        /\ structure[i].name = name
        /\ \A j \in DOMAIN structure : structure[j].name = name => j <= i

getColumnByName(structure, name) == structure[getColumnIndex(structure, name)]

getColumnCount(structure) == Len(structure)

(***************************************************************************)
(* Block: the ordered columns [name, type, data] plus the same name lookup.*)
(***************************************************************************)
blockAddColumn(block, name, type, data) ==
    Append(block, [name |-> name, type |-> type, data |-> data])

blockHasColumn(block, name) == \E i \in DOMAIN block : block[i].name = name

blockGetColumnIndex(block, name) ==
    CHOOSE i \in DOMAIN block :
        /\ block[i].name = name
        /\ \A j \in DOMAIN block : block[j].name = name => j <= i

blockGetColumnByName(block, name) == block[blockGetColumnIndex(block, name)]

getRowCount(block) == IF block = <<>> THEN 0 ELSE Len(block[1].data)

isValid(block) == \A i \in DOMAIN block : Len(block[i].data) = Len(block[1].data)

(***************************************************************************)
(* The type factory and the storage factory.                               *)
(***************************************************************************)
ScalarTypeNames ==
    {"Int8", "Int16", "Int32", "Int64", "UInt8", "UInt16", "UInt32", "UInt64",
     "Float32", "Float64", "String"}

\* createDataType on a scalar keyword; any other name throws
\* the spelling of Nullable(X), which is also DataTypeNullable::getName
NullableName ==
    [x \in ScalarTypeNames |->
        CASE x = "Int8"    -> "Nullable(Int8)"    [] x = "Int16"   -> "Nullable(Int16)"
          [] x = "Int32"   -> "Nullable(Int32)"   [] x = "Int64"   -> "Nullable(Int64)"
          [] x = "UInt8"   -> "Nullable(UInt8)"   [] x = "UInt16"  -> "Nullable(UInt16)"
          [] x = "UInt32"  -> "Nullable(UInt32)"  [] x = "UInt64"  -> "Nullable(UInt64)"
          [] x = "Float32" -> "Nullable(Float32)" [] x = "Float64" -> "Nullable(Float64)"
          [] x = "String"  -> "Nullable(String)"]

\* the exact scalar keywords, then the pattern Nullable(X) with the nested name
\* created in turn (here for a scalar X); anything else throws
createDataType(type_name) ==
    IF type_name \in ScalarTypeNames
    THEN [ok |-> TRUE, type |-> type_name]
    ELSE IF \E x \in ScalarTypeNames : type_name = NullableName[x]
    THEN [ok |-> TRUE, type |-> type_name]
    ELSE [ok |-> FALSE, type |-> "Null"]

\* createStorage: only the Memory engine exists
createStorage(engine_name, structure) ==
    IF engine_name = "Memory"
    THEN [ok |-> TRUE, storage |-> [structure |-> structure, blocks |-> <<>>]]
    ELSE [ok |-> FALSE, storage |-> [structure |-> structure, blocks |-> <<>>]]

(***************************************************************************)
(* MemoryStorage.                                                          *)
(***************************************************************************)
\* validateBlock: "ok", "mismatch" (returns false) or "throw" (getColumnByName
\* on a name the structure lacks, raised before the hasColumn test)
validateBlock(structure, block) ==
    IF Len(block) # getColumnCount(structure) THEN "mismatch"
    ELSE IF \E i \in DOMAIN block : ~hasColumn(structure, block[i].name) THEN "throw"
    ELSE IF \E i \in DOMAIN block :
               block[i].type # getColumnByName(structure, block[i].name).type
         THEN "mismatch"
    ELSE "ok"

\* MemoryStorage::insert: the block is appended iff validateBlock accepts it
insert(storage, block) ==
    IF validateBlock(storage.structure, block) = "ok"
    THEN [ok |-> TRUE, storage |-> [storage EXCEPT !.blocks = Append(@, block)]]
    ELSE [ok |-> FALSE, storage |-> storage]

\* MemoryStorage::read: per stored block, the requested columns in the
\* requested order; throws on a name the structure or a block lacks
read(storage, column_names) ==
    IF \E i \in DOMAIN column_names : ~hasColumn(storage.structure, column_names[i])
    THEN [ok |-> FALSE, blocks |-> <<>>]
    ELSE IF storage.blocks = <<>> THEN [ok |-> TRUE, blocks |-> <<>>]
    ELSE IF \E b \in DOMAIN storage.blocks : \E i \in DOMAIN column_names :
               ~blockHasColumn(storage.blocks[b], column_names[i])
    THEN [ok |-> FALSE, blocks |-> <<>>]
    ELSE [ok |-> TRUE,
          blocks |-> [b \in DOMAIN storage.blocks |->
                        [i \in DOMAIN column_names |->
                           [blockGetColumnByName(storage.blocks[b], column_names[i])
                               EXCEPT !.name = column_names[i]]]]]

(***************************************************************************)
(* State.                                                                  *)
(***************************************************************************)
VARIABLES
    tables_,   \* SQLExecutor::tables_: registered name -> MemoryStorage
    last,      \* the outcome of the latest execute() call
    dropped,   \* history: the names whose latest successful DROP TABLE no
               \* successful CREATE TABLE has followed
    mutex,     \* MemoryStorage::mutex of table "t": the thread that holds it
    threads    \* per concurrent thread: its position in execute() and its locals

vars == <<tables_, last, dropped, mutex, threads>>

\* the thread identities: writers execute one INSERT, the reader one SELECT
NoThread == 0
Writers == 1..NumWriters
Reader == NumWriters + 1
ThreadIds == Writers \cup {Reader}

\* a thread that has not entered execute()
IdleThread == [pc |-> "start"]

\* QueryResult, with the statement it answers (stmt, ast). returned is FALSE
\* when the call never returned a QueryResult; oob is TRUE when the call indexed
\* a vector outside its range, overflow when a signed sum left the range of
\* int64_t. rows: the count in an INSERT's message.
QueryResult(stmt, ast, success, error, blocks, column_names) ==
    [stmt |-> stmt, ast |-> ast, success |-> success, error |-> error,
     blocks |-> blocks, column_names |-> column_names,
     returned |-> TRUE, oob |-> FALSE, overflow |-> FALSE, rows |-> 0]

Failure(stmt, ast, error) == QueryResult(stmt, ast, FALSE, error, <<>>, <<>>)

Success(stmt, ast) == QueryResult(stmt, ast, TRUE, "", <<>>, <<>>)

\* a lookup that never finds the name
tableExists_never(tables, table_name) == FALSE

\* tables_.find(table_name) != tables_.end()
tableExists(tables, table_name) == table_name \in DOMAIN tables

(***************************************************************************)
(* executeCreateTable.                                                     *)
(***************************************************************************)
\* the structure after the addColumn loop over the first n definitions
RECURSIVE buildStructure(_, _)
buildStructure(columns, n) ==
    IF n = 0 THEN <<>>
    ELSE addColumn(buildStructure(columns, n - 1), columns[n][1],
                   createDataType(columns[n][2]).type)

\* a registration that replaces the registry by the new entry
registerTable_replaces(tables, table_name, storage) == [n \in {table_name} |-> storage]

\* tables_[table_name] = storage
registerTable(tables, table_name, storage) ==
    [n \in DOMAIN tables \cup {table_name} |->
        IF n = table_name THEN storage ELSE tables[n]]

executeCreateTable(tables, ast) ==
    IF tableExists(tables, ast.table_name)
    THEN [res |-> Failure("CREATE", ast, "TableAlreadyExists"), tables |-> tables]
    ELSE IF \E i \in DOMAIN ast.columns : ~createDataType(ast.columns[i][2]).ok
    THEN [res |-> Failure("CREATE", ast, "UnknownType"), tables |-> tables]
    ELSE LET structure == buildStructure(ast.columns, Len(ast.columns))
             made      == createStorage(ast.engine, structure)
         IN  IF ~made.ok
             THEN [res |-> Failure("CREATE", ast, "UnknownEngine"),
                   tables |-> tables]
             ELSE [res |-> Success("CREATE", ast),
                   tables |-> registerTable(tables, ast.table_name, made.storage)]

(***************************************************************************)
(* executeInsert.                                                          *)
(***************************************************************************)
\* the names of the structure's columns, in index order
schemaColumnNames(structure) == [i \in DOMAIN structure |-> structure[i].name]

\* the kinds executeInsert builds a column for
InsertableTypes ==
    {"Int8", "Int16", "Int32", "Int64", "UInt8", "UInt16", "UInt32", "UInt64",
     "Float32", "Float64", "String"}

\* a fill loop that swallows the conversion's exception
firstBadValue_swallowed(structure, column_names, values) == <<0, 0>>

\* the first value, in row-major order, whose conversion throws (<<0, 0>>: none)
firstBadValue(structure, column_names, values) ==
    LET first(bad) ==
            IF bad = {} THEN <<0, 0>>
            ELSE CHOOSE rc \in bad :
                    \A o \in bad : rc[1] < o[1] \/ (rc[1] = o[1] /\ rc[2] <= o[2])
    IN  first({rc \in (DOMAIN values) \X (DOMAIN column_names) :
                 ~ConvertValue(getColumnByName(structure, column_names[rc[2]]).type,
                               values[rc[1]][rc[2]]).ok})

\* the block the fill loop builds: one column per target name, one entry per row
buildBlock(structure, column_names, values) ==
    [i \in DOMAIN column_names |->
        LET type == getColumnByName(structure, column_names[i]).type
        IN  [name |-> column_names[i], type |-> type,
             data |-> [r \in DOMAIN values |-> ConvertValue(type, values[r][i]).v]]]

\* a handler that appends the block to the table before the storage validates it
storeBlock_first(tables, ast, block) ==
    [res |-> IF insert(tables[ast.table_name], block).ok
             THEN [Success("INSERT", ast) EXCEPT !.rows = Len(ast.values)]
             ELSE Failure("INSERT", ast, "StorageRejected"),
     tables |-> [tables EXCEPT ![ast.table_name].blocks = Append(@, block)]]

\* storage->insert(block) and what the handler returns after it
storeBlock(tables, ast, block) ==
    LET done == insert(tables[ast.table_name], block)
    IN  IF ~done.ok
        THEN [res |-> Failure("INSERT", ast, "StorageRejected"), tables |-> tables]
        ELSE [res |-> [Success("INSERT", ast) EXCEPT !.rows = Len(ast.values)],
              tables |-> [tables EXCEPT ![ast.table_name] = done.storage]]

\* a lookup through tables_[table_name], which registers the name it misses
insertTableNotFound_registers(tables, ast) ==
    [res |-> Failure("INSERT", ast, "TableNotFound"),
     tables |-> [n \in DOMAIN tables \cup {ast.table_name} |->
                   IF n \in DOMAIN tables THEN tables[n]
                   ELSE [structure |-> <<>>, blocks |-> <<>>]]]

\* the early return for a name tables_.find does not find
insertTableNotFound(tables, ast) ==
    [res |-> Failure("INSERT", ast, "TableNotFound"), tables |-> tables]

executeInsert(tables, ast) ==
    IF ~tableExists(tables, ast.table_name)
    THEN insertTableNotFound(tables, ast)
    ELSE
    LET structure    == tables[ast.table_name].structure
        column_names == IF ast.column_names = <<>> THEN schemaColumnNames(structure)
                        ELSE ast.column_names
        fail(error)  == [res |-> Failure("INSERT", ast, error), tables |-> tables]
    IN  IF \E i \in DOMAIN column_names : ~hasColumn(structure, column_names[i])
        THEN fail("ColumnNotFound")
        ELSE IF ast.values = <<>> THEN fail("NoValues")
        ELSE IF \E r \in DOMAIN ast.values : Len(ast.values[r]) # Len(column_names)
        THEN fail("ValuesColumnsCountMismatch")
        ELSE IF \E i \in DOMAIN column_names :
                   getColumnByName(structure, column_names[i]).type \notin InsertableTypes
        THEN fail("UnsupportedType")
        ELSE LET bad == firstBadValue(structure, column_names, ast.values)
             IN  IF bad # <<0, 0>>
                 THEN fail("ValueConversionError")
                 ELSE storeBlock(tables, ast,
                                 buildBlock(structure, column_names, ast.values))

(***************************************************************************)
(* Aggregates over the blocks a read returned.                             *)
(***************************************************************************)
SignedTypes == {"Int8", "Int16", "Int32", "Int64"}
UnsignedTypes == {"UInt8", "UInt16", "UInt32", "UInt64"}
FloatTypes == {"Float32", "Float64"}

getAggregateFunctionName(agg_type) ==
    IF agg_type \in {"COUNT", "SUM", "AVG", "MIN", "MAX"} THEN agg_type ELSE ""

\* the text FUNC(column), kept as its two parts
aggregateColumnName(agg_type, column) == <<getAggregateFunctionName(agg_type), column>>

\* the values of column_name over the blocks, in scan order; the loops skip a
\* block without columns or without rows
scanColumn(blocks, column_name) ==
    Flatten([b \in DOMAIN blocks |->
                IF Len(blocks[b]) = 0 \/ getRowCount(blocks[b]) = 0 THEN <<>>
                ELSE blockGetColumnByName(blocks[b], column_name).data])

\* COUNT(*): the sum of the blocks' row counts
countRows(blocks) == SumSeq([b \in DOMAIN blocks |-> getRowCount(blocks[b])])

\* computeCount: no stored value is null
computeCount(blocks, column_name) == Len(scanColumn(blocks, column_name))

\* sum += value in ResultT: uint64_t wraps modulo 2^64; int64_t has no defined
\* result outside its range (overflow), the wrapped value being what a build
\* that goes on computes
addInResultT(result_type, sum, value) ==
    LET wrap(t) ==
            LET above == ~t.neg /\ ~BigLess(t.mag, TwoPow63)
                below == t.neg /\ BigLess(TwoPow63, t.mag)
            IN  IF result_type = "UInt64"
                THEN [overflow |-> sum.overflow, v |-> FromBig(FALSE, LowBits(t.mag, 64))]
                ELSE IF above \/ below
                THEN [overflow |-> TRUE, v |-> FromBig(above, BigSub(TwoPow64, t.mag))]
                ELSE [overflow |-> sum.overflow, v |-> FromBig(t.neg, t.mag)]
    IN  wrap(SignedAdd(ToBig(sum.v), ToBig(value)))

\* the accumulator after the first n values
RECURSIVE sumOfFirst(_, _, _)
sumOfFirst(result_type, vs, n) ==
    IF n = 0 THEN [v |-> IntValue(0), overflow |-> FALSE]
    ELSE addInResultT(result_type, sumOfFirst(result_type, vs, n - 1), vs[n])

\* computeSum<ResultT, ValueT>
computeSum(result_type, blocks, column_name) ==
    LET vs == scanColumn(blocks, column_name)
    IN  sumOfFirst(result_type, vs, Len(vs))

\* computeAvg: the quotient sum / count as the pair of its terms, 0 without values
computeAvg(blocks, column_name) ==
    LET vs == scanColumn(blocks, column_name)
    IN  IF Len(vs) > 0
        THEN [k |-> "f", num |-> SumSeq([i \in DOMAIN vs |-> vs[i].v]), den |-> Len(vs)]
        ELSE [k |-> "f", num |-> 0, den |-> 1]

\* computeMin / computeMax: ok is FALSE where the code throws
computeMin(blocks, column_name) ==
    LET vs == scanColumn(blocks, column_name)
    IN  IF blocks = <<>> \/ vs = <<>> THEN [ok |-> FALSE, v |-> IntValue(0)]
        ELSE [ok |-> TRUE,
              v |-> CHOOSE m \in Range(vs) :
                       \A i \in DOMAIN vs : SignedLeq(ToBig(m), ToBig(vs[i]))]

computeMax(blocks, column_name) ==
    LET vs == scanColumn(blocks, column_name)
    IN  IF blocks = <<>> \/ vs = <<>> THEN [ok |-> FALSE, v |-> IntValue(0)]
        ELSE [ok |-> TRUE,
              v |-> CHOOSE m \in Range(vs) :
                       \A i \in DOMAIN vs : SignedLeq(ToBig(vs[i]), ToBig(m))]

\* computeAggregate<T>: the one-row result column of one aggregate expression,
\* T being the kind type_id names; ok is FALSE where the code throws
computeAggregate(type_id, col_expr, blocks) ==
    LET column(type, value) ==
            [ok |-> TRUE, error |-> "", overflow |-> FALSE,
             column |-> [name |-> "", type |-> type, data |-> <<value>>]]
        \* r: what computeSum<ResultT, T> returned, ResultT being type
        sum(type, r) == [column(type, r.v) EXCEPT !.overflow = r.overflow]
        throw(error) ==
            [ok |-> FALSE, error |-> error, overflow |-> FALSE,
             column |-> [name |-> "", type |-> "Null", data |-> <<>>]]
        \* m: what computeMin or computeMax did
        extreme(m) == IF m.ok THEN column(type_id, m.v) ELSE throw("NoNonNullValues")
        numeric == type_id \in SignedTypes \cup UnsignedTypes \cup FloatTypes
    IN  CASE col_expr.agg_type = "COUNT" ->
               column("UInt64",
                      IntValue(IF col_expr.column = "*" THEN countRows(blocks)
                               ELSE computeCount(blocks, col_expr.column)))
          [] col_expr.agg_type = "SUM" ->
               IF type_id \in SignedTypes
               THEN sum("Int64", computeSum("Int64", blocks, col_expr.column))
               ELSE IF type_id \in UnsignedTypes
               THEN sum("UInt64", computeSum("UInt64", blocks, col_expr.column))
               ELSE IF type_id \in FloatTypes
               THEN sum("Float64", computeSum("Float64", blocks, col_expr.column))
               ELSE throw("UnsupportedAggregateType")
          [] col_expr.agg_type = "AVG" ->
               IF numeric THEN column("Float64", computeAvg(blocks, col_expr.column))
               ELSE throw("UnsupportedAggregateType")
          [] col_expr.agg_type = "MIN" ->
               IF ~numeric THEN throw("UnsupportedAggregateType")
               ELSE extreme(computeMin(blocks, col_expr.column))
          [] col_expr.agg_type = "MAX" ->
               IF ~numeric THEN throw("UnsupportedAggregateType")
               ELSE extreme(computeMax(blocks, col_expr.column))
          [] OTHER -> throw("UnsupportedAggregate")

(***************************************************************************)
(* executeSelect.                                                          *)
(***************************************************************************)
isCountStar(col_expr) == col_expr.agg_type = "COUNT" /\ col_expr.column = "*"

\* std::sort then std::unique/erase: each name once, in sorted order
RECURSIVE sortUnique(_)
sortUnique(names) ==
    IF names = <<>> THEN <<>>
    ELSE LET first == CHOOSE n \in Range(names) :
                         \A m \in Range(names) : NameRank[n] <= NameRank[m]
         IN  <<first>> \o sortUnique(SelectSeq(names, LAMBDA n : n # first))

\* the aggregate path is taken when an expression is an aggregate call and the
\* read returned a block
takesAggregatePath(has_aggregates, blocks) == has_aggregates /\ blocks # <<>>

\* the aggregate path: one result block, one column per aggregate expression
aggregateResult(ast, structure, blocks) ==
    LET aggs    == SelectSeq(ast.columns, LAMBDA e : e.agg_type # "NONE")
        type_id(e) == IF isCountStar(e) THEN "UInt64"
                      ELSE getColumnByName(structure, e.column).type
        \* the String case of the switch refuses all but COUNT before computing
        one(e)  == IF type_id(e) = "String" /\ e.agg_type # "COUNT"
                   THEN [ok |-> FALSE, error |-> "UnsupportedAggregateType",
                         overflow |-> FALSE,
                         column |-> [name |-> "", type |-> "Null", data |-> <<>>]]
                   ELSE IF type_id(e) \notin ScalarTypeNames
                   THEN [ok |-> FALSE, error |-> "UnsupportedType",
                         overflow |-> FALSE,
                         column |-> [name |-> "", type |-> "Null", data |-> <<>>]]
                   ELSE computeAggregate(type_id(e), e, blocks)
        col_name(e) == IF e.alias # "" THEN e.alias
                       ELSE aggregateColumnName(e.agg_type, e.column)
        \* the loop over aggs, ones[i] being what the turn for aggs[i] computes:
        \* it ends at the first turn that throws
        loop(ones) ==
            LET bad     == {i \in DOMAIN aggs : ~ones[i].ok}
                stop    == IF bad = {} THEN Len(aggs) + 1
                           ELSE CHOOSE i \in bad : \A j \in bad : i <= j
                \* an aggregate computed before the loop ended left the range
                \* of int64_t
                overflow == \E i \in 1..(stop - 1) : ones[i].overflow
            IN  IF bad # {}
                THEN [Failure("SELECT", ast, ones[stop].error)
                         EXCEPT !.overflow = overflow]
                ELSE [QueryResult("SELECT", ast, TRUE, "",
                         << [i \in DOMAIN aggs |->
                                [ones[i].column EXCEPT !.name = col_name(aggs[i])]] >>,
                         [i \in DOMAIN aggs |-> col_name(aggs[i])])
                         EXCEPT !.overflow = overflow]
    IN  loop([i \in DOMAIN aggs |-> one(aggs[i])])

\* the names of a projection's result: the schema's, or alias-else-column per expression
resultColumnNames(structure, ast) ==
    IF ast.select_all THEN schemaColumnNames(structure)
    ELSE [i \in DOMAIN ast.columns |->
            IF ast.columns[i].alias # "" THEN ast.columns[i].alias
            ELSE ast.columns[i].column]

\* a truncation that pops rows from the first column only
truncateBlock_first(block, remaining) ==
    [i \in DOMAIN block |->
        [block[i] EXCEPT !.data =
            IF i = 1 /\ Len(@) > remaining THEN SubSeq(@, 1, remaining) ELSE @]]

\* a clone of the block with rows popped from the back of every column until
\* remaining are left
truncateBlock(block, remaining) ==
    [i \in DOMAIN block |->
        [block[i] EXCEPT !.data =
            IF Len(@) > remaining THEN SubSeq(@, 1, remaining) ELSE @]]

\* the LIMIT loop: whole blocks while they fit, then the truncated clone of
\* the first block that does not, then nothing
RECURSIVE limitBlocks(_, _)
limitBlocks(blocks, remaining) ==
    IF blocks = <<>> THEN <<>>
    ELSE IF getRowCount(blocks[1]) <= remaining
    THEN <<blocks[1]>> \o limitBlocks(Tail(blocks), remaining - getRowCount(blocks[1]))
    ELSE <<truncateBlock(blocks[1], remaining)>>

applyLimit(blocks, limit) ==
    IF limit > 0 /\ blocks # <<>> /\ countRows(blocks) > limit
    THEN limitBlocks(blocks, limit)
    ELSE blocks

\* ub: what the build makes of getColumnByIndex(0) on a structure without
\* columns, "crash" (the call never returns) or "garbage" (some name is read),
\* and of a signed sum outside int64_t, "crash" or the wrapped value
executeSelect(tables, ast, ub) ==
    IF ~tableExists(tables, ast.table_name)
    THEN Failure("SELECT", ast, "TableNotFound")
    ELSE
    LET storage   == tables[ast.table_name]
        structure == storage.structure
        \* the expression at which the loop over ast.columns stops early
        outOfRange(e) == isCountStar(e) /\ getColumnCount(structure) = 0
        missing(e)    == ~isCountStar(e) /\ ~hasColumn(structure, e.column)
        stops == IF ast.select_all THEN {}
                 ELSE {i \in DOMAIN ast.columns :
                         outOfRange(ast.columns[i]) \/ missing(ast.columns[i])}
        stop  == IF stops = {} THEN 0 ELSE CHOOSE i \in stops : \A j \in stops : i <= j
        has_aggregates == ~ast.select_all /\
                          \E i \in DOMAIN ast.columns : ast.columns[i].agg_type # "NONE"
        column_names ==
            IF ast.select_all THEN schemaColumnNames(structure)
            ELSE [i \in DOMAIN ast.columns |->
                    IF isCountStar(ast.columns[i]) THEN structure[1].name
                    ELSE ast.columns[i].column]
    IN  IF stop # 0 /\ outOfRange(ast.columns[stop])
        THEN \* columns[0] of an empty vector: the name read there is in no
             \* structure, so a call that survives the access fails later on
             [Failure("SELECT", ast,
                      IF \E i \in stops : missing(ast.columns[i])
                      THEN "ColumnNotFound" ELSE "ReadError")
                EXCEPT !.oob = TRUE, !.returned = (ub = "garbage")]
        ELSE IF stop # 0 THEN Failure("SELECT", ast, "ColumnNotFound")
        ELSE
        LET got == read(storage, sortUnique(column_names))
        IN  IF ~got.ok THEN Failure("SELECT", ast, "ReadError")
            ELSE IF takesAggregatePath(has_aggregates, got.blocks)
            THEN LET \* a signed sum outside int64_t: a crash, or the wrapped value
                     after(r) == IF r.overflow
                                 THEN [r EXCEPT !.returned = (ub = "garbage")] ELSE r
                 IN  after(aggregateResult(ast, structure, got.blocks))
            ELSE QueryResult("SELECT", ast, TRUE, "",
                             applyLimit(got.blocks, ast.limit),
                             resultColumnNames(structure, ast))

(***************************************************************************)
(* parseDropTable.                                                         *)
(***************************************************************************)
\* the letter case std::regex::icase folds
toUpper(text) ==
    [i \in DOMAIN text |->
        CASE text[i] = "i" -> "I" [] text[i] = "f" -> "F" [] text[i] = "e" -> "E"
          [] text[i] = "x" -> "X" [] text[i] = "s" -> "S" [] text[i] = "t" -> "T"
          [] OTHER -> text[i]]

\* the optional group (?:IF\s+EXISTS\s+)? of drop_regex, matched without
\* regard to letter case: IF, one blank or more, EXISTS
matchesIfExistsGroup(clause) ==
    \E k \in 1..Len(clause) :
        toUpper(clause) = <<"I", "F">> \o [i \in 1..k |-> " "]
                             \o <<"E", "X", "I", "S", "T", "S">>

\* query.find("IF EXISTS") != npos: an exact, case-sensitive substring search
findIfExists(clause) ==
    \E i \in 1..Len(clause) :
        /\ i + Len(IfExistsText) - 1 <= Len(clause)
        /\ SubSeq(clause, i, i + Len(IfExistsText) - 1) = IfExistsText

\* the AST of DROP TABLE <clause> <table_name>; clause is kept beside the
\* fields of DropTableAST as the statement's text
parseDropTable(clause, table_name) ==
    [table_name |-> table_name, if_exists |-> findIfExists(clause), clause |-> clause]

(***************************************************************************)
(* executeDropTable, executeShowTables, executeDescribe.                   *)
(***************************************************************************)
\* a DROP that leaves the entry in the registry
executeDropTable_keeps(tables, ast) ==
    IF ~tableExists(tables, ast.table_name)
    THEN IF ast.if_exists
         THEN [res |-> Success("DROP", ast), tables |-> tables]
         ELSE [res |-> Failure("DROP", ast, "TableNotFound"), tables |-> tables]
    ELSE [res |-> Success("DROP", ast), tables |-> tables]

executeDropTable(tables, ast) ==
    IF ~tableExists(tables, ast.table_name)
    THEN IF ast.if_exists
         THEN [res |-> Success("DROP", ast), tables |-> tables]
         ELSE [res |-> Failure("DROP", ast, "TableNotFound"), tables |-> tables]
    ELSE [res |-> Success("DROP", ast),
          tables |-> [n \in DOMAIN tables \ {ast.table_name} |-> tables[n]]]

\* names: the registered names in the order the registry iterates them
executeShowTables(tables, names) ==
    QueryResult("SHOW", [table_name |-> ""], TRUE, "",
                << << [name |-> "table_name", type |-> "String",
                       data |-> [i \in DOMAIN names |-> StrValue(names[i])]] >> >>,
                <<"table_name">>)

executeDescribe(tables, ast) ==
    IF ~tableExists(tables, ast.table_name)
    THEN Failure("DESCRIBE", ast, "TableNotFound")
    ELSE LET structure == tables[ast.table_name].structure
         IN  QueryResult("DESCRIBE", ast, TRUE, "",
                 << << [name |-> "column_name", type |-> "String",
                        data |-> [i \in DOMAIN structure |-> StrValue(structure[i].name)]],
                       [name |-> "type", type |-> "String",
                        data |-> [i \in DOMAIN structure |-> StrValue(structure[i].type)]] >> >>,
                 <<"column_name", "type">>)

(***************************************************************************)
(* Actions: one execute() call each.                                       *)
(***************************************************************************)
\* the blocks stored over all tables
TotalBlocks(tables) ==
    LET RECURSIVE count(_)
        count(S) == IF S = {} THEN 0
                    ELSE LET n == CHOOSE n \in S : TRUE
                         IN  Len(tables[n].blocks) + count(S \ {n})
    IN  count(DOMAIN tables)

\* a call that indexed outside a vector never returned, and no call follows it
Running == last.returned

Init ==
    /\ tables_ = << >>
    /\ last = Success("NONE", [table_name |-> ""])
    /\ dropped = {}
    /\ mutex = NoThread
    /\ threads = [i \in ThreadIds |-> IdleThread]

CreateTable ==
    /\ Running
    /\ \E name \in TableNames, columns \in CreateColumnLists, engine \in EngineNames :
         LET out == executeCreateTable(tables_,
                        [table_name |-> name, columns |-> columns, engine |-> engine])
         IN  /\ tables_' = out.tables
             /\ last' = out.res
             /\ dropped' = IF out.res.success THEN dropped \ {name} ELSE dropped
    /\ UNCHANGED <<mutex, threads>>

Insert ==
    /\ Running
    /\ \E name \in TableNames, stmt \in InsertStatements :
         \E out \in {executeInsert(tables_,
                        [table_name |-> name, column_names |-> stmt[1],
                         values |-> stmt[2]])} :
             /\ TotalBlocks(out.tables) <= MaxBlocks
             /\ tables_' = out.tables
             /\ last' = out.res
    /\ UNCHANGED <<dropped, mutex, threads>>

DropTable ==
    /\ Running
    /\ \E name \in TableNames, clause \in DropClauses :
         LET out == executeDropTable(tables_, parseDropTable(clause, name))
         IN  /\ tables_' = out.tables
             /\ last' = out.res
             /\ dropped' = IF out.res.success THEN dropped \cup {name} ELSE dropped
    /\ UNCHANGED <<mutex, threads>>

ShowTables ==
    /\ Running
    /\ \E names \in [1..Cardinality(DOMAIN tables_) -> DOMAIN tables_] :
         /\ \A i, j \in DOMAIN names : i # j => names[i] # names[j]
         /\ last' = executeShowTables(tables_, names)
    /\ UNCHANGED <<tables_, dropped, mutex, threads>>

Describe ==
    /\ Running
    /\ \E name \in TableNames :
         last' = executeDescribe(tables_, [table_name |-> name])
    /\ UNCHANGED <<tables_, dropped, mutex, threads>>

\* the outcomes of one SELECT: the call's result, and where it indexed outside
\* a vector also the call that never returns
selectOutcomes(tables, ast) ==
    LET outcomes(r) ==
            IF r.oob \/ r.overflow THEN {r, executeSelect(tables, ast, "crash")} ELSE {r}
    IN  outcomes(executeSelect(tables, ast, "garbage"))

Select ==
    /\ Running
    /\ \E name \in TableNames :
         \/ \E p \in ProjectionLists, limit \in 0..MaxLimit :
              last' \in selectOutcomes(tables_,
                          [table_name |-> name, select_all |-> p[1], columns |-> p[2],
                           limit |-> limit])
         \/ \E columns \in AggregateLists :
              last' \in selectOutcomes(tables_,
                          [table_name |-> name, select_all |-> FALSE,
                           columns |-> columns, limit |-> 0])
    /\ UNCHANGED <<tables_, dropped, mutex, threads>>

Next == CreateTable \/ Insert \/ Select \/ DropTable \/ ShowTables \/ Describe

Spec == Init /\ [][Next]_vars

(***************************************************************************)
(* Concurrent execute() calls against one table. The main thread creates   *)
(* table "t", starts the threads, joins them and counts the table's rows. *)
(* A thread's step is one access to shared state: the mutex of the table's *)
(* MemoryStorage, or its block list. What a call does before and after is  *)
(* local to the thread (parser, AST and the block under construction).     *)
(***************************************************************************)
ConcTable == "t"

\* the INSERT statements the writers choose from: <<column_names, values>>
ConcInsertStatements ==
    { << <<>>, <<Row1, Row2>> >>,
      << <<>>, <<Row2, Row3>> >>,
      << <<"b", "a">>, <<Row3>> >>,
      << <<"b", "b">>, <<Row3>> >>,
      << <<"a">>, <<<<Tok1>>>> >> }

\* the SELECT statements the reader chooses from: <<select_all, columns>>
ConcSelectLists == { <<TRUE, <<>>>>, <<FALSE, <<Col("b")>>>> }

\* the failures executeInsert returns before it calls storage->insert
PreStorageErrors ==
    {"TableNotFound", "ColumnNotFound", "NoValues", "ValuesColumnsCountMismatch",
     "UnsupportedType", "ValueConversionError"}

\* mutual exclusion switched off: the lock is granted whoever holds it
lockIsFree_always(m) == TRUE

\* std::lock_guard<std::mutex> lock(mutex) proceeds when no thread holds the mutex
lockIsFree(m) == m = NoThread

\* the state after the main thread's CREATE TABLE, before the threads start
InitConc ==
    LET out == executeCreateTable(<< >>,
                   [table_name |-> ConcTable,
                    columns |-> << <<"a", "Int8">>, <<"b", "String">> >>,
                    engine |-> "Memory"])
    IN  /\ tables_ = out.tables
        /\ last = out.res
        /\ dropped = {}
        /\ mutex = NoThread
        /\ threads = [i \in ThreadIds |-> IdleThread]

\* executeInsert up to storage->insert: the lookups, the checks and the fill
\* loop, all on the thread's own data
InsertPrepare(w) ==
    /\ threads[w].pc = "start"
    /\ \E stmt \in ConcInsertStatements :
         LET ast == [table_name |-> ConcTable, column_names |-> stmt[1],
                     values |-> stmt[2]]
             out == executeInsert(tables_, ast)
             structure == tables_[ConcTable].structure
             column_names == IF stmt[1] = <<>> THEN schemaColumnNames(structure)
                             ELSE stmt[1]
         IN  threads' = [threads EXCEPT ![w] =
                 IF out.res.error \in PreStorageErrors
                 THEN [pc |-> "done", ast |-> ast, res |-> out.res]
                 ELSE [pc |-> "lock", ast |-> ast,
                       block |-> buildBlock(structure, column_names, stmt[2])]]
    /\ UNCHANGED <<tables_, last, dropped, mutex>>

\* MemoryStorage::insert: the lock_guard
InsertLock(w) ==
    /\ threads[w].pc = "lock"
    /\ lockIsFree(mutex)
    /\ mutex' = w
    /\ threads' = [threads EXCEPT ![w].pc = "validate"]
    /\ UNCHANGED <<tables_, last, dropped>>

\* MemoryStorage::insert: validateBlock; a refusal throws, which leaves the
\* scope of the lock_guard and is caught by executeInsert
InsertValidate(w) ==
    /\ threads[w].pc = "validate"
    /\ threads' = [threads EXCEPT ![w] =
          IF validateBlock(tables_[ConcTable].structure, threads[w].block) = "ok"
          THEN [@ EXCEPT !.pc = "push"]
          ELSE [pc |-> "unlock", ast |-> @.ast, block |-> @.block,
                res |-> Failure("INSERT", @.ast, "StorageRejected")]]
    /\ UNCHANGED <<tables_, last, dropped, mutex>>

\* blocks.push_back(block), first half: the vector as the thread finds it
InsertPushRead(w) ==
    /\ threads[w].pc = "push"
    /\ threads' = [threads EXCEPT ![w] =
          [pc |-> "write", ast |-> @.ast, block |-> @.block,
           seen |-> tables_[ConcTable].blocks]]
    /\ UNCHANGED <<tables_, last, dropped, mutex>>

\* blocks.push_back(block), second half: the vector with the block appended
InsertPushWrite(w) ==
    /\ threads[w].pc = "write"
    /\ tables_' = [tables_ EXCEPT ![ConcTable].blocks =
                      Append(threads[w].seen, threads[w].block)]
    /\ threads' = [threads EXCEPT ![w] =
          [pc |-> "unlock", ast |-> @.ast, block |-> @.block,
           res |-> [Success("INSERT", threads[w].ast)
                       EXCEPT !.rows = Len(threads[w].ast.values)]]]
    /\ UNCHANGED <<last, dropped, mutex>>

\* the end of the lock_guard's scope; the call returns its QueryResult
InsertUnlock(w) ==
    /\ threads[w].pc = "unlock"
    /\ mutex' = NoThread
    /\ threads' = [threads EXCEPT ![w].pc = "done"]
    /\ UNCHANGED <<tables_, last, dropped>>

\* executeSelect up to storage->read
SelectPrepare ==
    /\ threads[Reader].pc = "start"
    /\ \E p \in ConcSelectLists :
         threads' = [threads EXCEPT ![Reader] =
             [pc |-> "lock",
              ast |-> [table_name |-> ConcTable, select_all |-> p[1],
                       columns |-> p[2], limit |-> 0]]]
    /\ UNCHANGED <<tables_, last, dropped, mutex>>

\* MemoryStorage::read: the lock_guard
SelectLock ==
    /\ threads[Reader].pc = "lock"
    /\ lockIsFree(mutex)
    /\ mutex' = Reader
    /\ threads' = [threads EXCEPT ![Reader].pc = "read"]
    /\ UNCHANGED <<tables_, last, dropped>>

\* MemoryStorage::read copies the blocks out; what executeSelect then makes
\* of the copy depends on the copy alone
SelectRead ==
    /\ threads[Reader].pc = "read"
    /\ threads' = [threads EXCEPT ![Reader] =
          [pc |-> "unlock", ast |-> @.ast,
           res |-> executeSelect(tables_, @.ast, "garbage")]]
    /\ UNCHANGED <<tables_, last, dropped, mutex>>

SelectUnlock ==
    /\ threads[Reader].pc = "unlock"
    /\ mutex' = NoThread
    /\ threads' = [threads EXCEPT ![Reader].pc = "done"]
    /\ UNCHANGED <<tables_, last, dropped>>

\* the main thread after join(): SELECT COUNT(*) FROM t
CountAfterJoin ==
    /\ \A i \in ThreadIds : threads[i].pc = "done"
    /\ last.stmt # "SELECT"
    /\ last' = executeSelect(tables_,
                   [table_name |-> ConcTable, select_all |-> FALSE,
                    columns |-> <<Agg("COUNT", "*")>>, limit |-> 0], "garbage")
    /\ UNCHANGED <<tables_, dropped, mutex, threads>>

WriterStep(w) ==
    \/ InsertPrepare(w) \/ InsertLock(w) \/ InsertValidate(w)
    \/ InsertPushRead(w) \/ InsertPushWrite(w) \/ InsertUnlock(w)

ReaderStep == SelectPrepare \/ SelectLock \/ SelectRead \/ SelectUnlock

NextConc == (\E w \in Writers : WriterStep(w)) \/ ReaderStep \/ CountAfterJoin

SpecConc == InitConc /\ [][NextConc]_vars

(***************************************************************************)
(* Typed round trips: one table t with one column a of an integer kind or  *)
(* String; the statements INSERT INTO t VALUES (<literal>), SELECT a FROM  *)
(* t and SELECT SUM(a) FROM t, as Database::executeQuery runs them.        *)
(***************************************************************************)
RoundTripTypes ==
    {"Int8", "Int16", "Int32", "Int64", "UInt8", "UInt16", "UInt32", "UInt64", "String"}

\* a literal as the statement writes it: an integer in decimal, or a quoted text
IntLiteral(neg, digits) ==
    [kind |-> "int", neg |-> neg, mag |-> MagOfDigits(digits, Len(digits)).mag,
     text |-> (IF neg THEN <<"-">> ELSE <<>>) \o
              [j \in DOMAIN digits |-> DigitChar[digits[j]]]]
StrLiteral(chars) ==
    [kind |-> "str", chars |-> chars, text |-> <<"'">> \o chars \o <<"'">>]

RoundTripLiterals ==
    { IntLiteral(FALSE, <<5>>), IntLiteral(TRUE, <<5>>),
      IntLiteral(FALSE, <<2, 0, 0>>),
      IntLiteral(FALSE, <<9, 2, 2, 3, 3, 7, 2, 0, 3, 6, 8, 5, 4, 7, 7, 5, 8, 0, 7>>),
      IntLiteral(FALSE, <<1, 8, 4, 4, 6, 7, 4, 4, 0, 7, 3, 7, 0, 9, 5, 5, 1, 6, 1, 5>>),
      StrLiteral(<<"x">>) }

RoundTripSelects == { <<Col("a")>>, <<Agg("SUM", "a")>> }

InitRT == Init

CreateTyped ==
    /\ Running
    /\ \E type \in RoundTripTypes :
         LET out == executeCreateTable(tables_,
                        [table_name |-> ConcTable, columns |-> << <<"a", type>> >>,
                         engine |-> "Memory"])
         IN  /\ tables_' = out.tables
             /\ last' = out.res
    /\ UNCHANGED <<dropped, mutex, threads>>

InsertLiteral ==
    /\ Running
    /\ \E literal \in RoundTripLiterals :
         \E out \in {executeInsert(tables_,
                        [table_name |-> ConcTable, column_names |-> <<>>,
                         values |-> <<valueTokens(literal.text, 1)>>,
                         literal |-> literal])} :
             /\ TotalBlocks(out.tables) <= MaxBlocks
             /\ tables_' = out.tables
             /\ last' = out.res
    /\ UNCHANGED <<dropped, mutex, threads>>

SelectTyped ==
    /\ Running
    /\ \E columns \in RoundTripSelects :
         last' \in selectOutcomes(tables_,
                     [table_name |-> ConcTable, select_all |-> FALSE,
                      columns |-> columns, limit |-> 0])
    /\ UNCHANGED <<tables_, dropped, mutex, threads>>

NextRT == CreateTyped \/ InsertLiteral \/ SelectTyped

SpecRT == InitRT /\ [][NextRT]_vars

(***************************************************************************)
(* Column types: CREATE TABLE statements over every type name, DESCRIBE    *)
(* and DROP TABLE. The text of a column's type is a sequence of tokens:    *)
(* <<X>> for a scalar name, <<"Nullable", "(", X, ")">> for Nullable(X).   *)
(***************************************************************************)
ScalarText(x) == <<x>>
NullableText(x) == <<"Nullable", "(", x, ")">>

TypeTexts ==
    {ScalarText(x) : x \in ScalarTypeNames} \cup
    {NullableText(x) : x \in {"Int32", "String"}}

\* the column lists of the statements: <<name, type text>> per column
TypedColumnLists ==
    {<< <<"a", text>> >> : text \in TypeTexts} \cup
    { << <<"a", NullableText("Int32")>>, <<"b", ScalarText("String")>> >>,
      << <<"a", ScalarText("Int32")>>, <<"b", ScalarText("String")>> >> }

\* parseCreateTable: create_regex takes as the column list the text up to the
\* first closing parenthesis of the statement, and an ENGINE clause only right
\* behind that parenthesis; column_regex takes per column a name and, as its
\* type, a word with a parenthesised group only when the group holds digits
parseCreateTable(table_name, column_texts, engine) ==
    LET closing == {i \in DOMAIN column_texts : ")" \in Range(column_texts[i][2])}
        kept    == IF closing = {} THEN Len(column_texts)
                   ELSE CHOOSE i \in closing : \A j \in closing : i <= j
    IN  [table_name |-> table_name,
         columns |-> [i \in 1..kept |-> <<column_texts[i][1], column_texts[i][2][1]>>],
         engine |-> IF closing = {} THEN engine ELSE "Memory",
         column_texts |-> column_texts]

InitTypes == Init

CreateAnyType ==
    /\ Running
    /\ \E name \in TableNames, column_texts \in TypedColumnLists :
         LET out == executeCreateTable(tables_,
                        parseCreateTable(name, column_texts, "Memory"))
         IN  /\ tables_' = out.tables
             /\ last' = out.res
             /\ dropped' = IF out.res.success THEN dropped \ {name} ELSE dropped
    /\ UNCHANGED <<mutex, threads>>

NextTypes == CreateAnyType \/ Describe \/ DropTable

SpecTypes == InitTypes /\ [][NextTypes]_vars

(***************************************************************************)
(* SELECT statements with clauses. The text of a statement behind its      *)
(* table name is the sequence of its words, one blank between two words.   *)
(***************************************************************************)
\* the clauses a SELECT is written with: the words of the WHERE, GROUP BY and
\* ORDER BY expressions (<<>>: no such clause), the LIMIT count (-1: no LIMIT
\* clause), and whether the keywords are written in lower case
SelectClauses ==
    LET clauses(where, group, order, limits, lower) ==
            [where : {where}, group : {group}, order : {order}, limit : limits,
             lower : {lower}]
    IN  clauses(<<>>, <<>>, <<>>, (-1)..MaxLimit, FALSE)
        \cup clauses(<<"a", ">", "1">>, <<>>, <<>>, {-1, 1}, FALSE)
        \cup clauses(<<>>, <<"a">>, <<>>, {-1, 1}, FALSE)
        \cup clauses(<<>>, <<>>, <<"b", "DESC">>, {-1, 1}, FALSE)
        \cup clauses(<<"a", ">", "1">>, <<"a">>, <<"b", "DESC">>, {-1, 0, MaxLimit}, FALSE)
        \cup clauses(<<"a", ">", "1">>, <<"a">>, <<"b", "DESC">>, {1}, TRUE)

\* the words of the statement behind the table name
tailText(c) ==
    LET kw(upper, lower) == IF c.lower THEN lower ELSE upper
    IN  (IF c.where = <<>> THEN <<>> ELSE <<kw("WHERE", "where")>> \o c.where)
        \o (IF c.group = <<>> THEN <<>>
            ELSE <<kw("GROUP", "group"), kw("BY", "by")>> \o c.group)
        \o (IF c.order = <<>> THEN <<>>
            ELSE <<kw("ORDER", "order"), kw("BY", "by")>> \o c.order)
        \o (IF c.limit < 0 THEN <<>> ELSE <<kw("LIMIT", "limit"), DigitChar[c.limit]>>)

\* a matcher whose lazy groups take the longest text instead of the shortest
firstMatch_longest(keys) == CHOOSE k \in keys : \A o \in keys : o <= k

\* the match the backtracking search finds first: an optional group is tried
\* before it is skipped, a lazy group grows word by word
firstMatch(keys) == CHOOSE k \in keys : \A o \in keys : k <= o

\* parseSelect behind FROM <table>: select_regex matches, up to the end of the
\* text, an optional WHERE clause, an optional GROUP BY clause, an optional
\* ORDER BY clause, each with a lazy expression, and an optional LIMIT count.
\* A split <<w, g, o, l>> gives the word each clause starts at (0: absent).
parseSelect(table_name, select_all, columns, tail) ==
    LET n == Len(tail)
        upper(t) == CASE t = "where" -> "WHERE" [] t = "group" -> "GROUP"
                      [] t = "order" -> "ORDER" [] t = "by" -> "BY"
                      [] t = "limit" -> "LIMIT" [] OTHER -> t
        is(i, word) == i >= 1 /\ i <= n /\ upper(tail[i]) = word
        \* the word at which the clause after the k-th ends it
        next(s, k) == LET later == {s[j] : j \in (k + 1)..4} \ {0}
                      IN  IF later = {} THEN n + 1
                          ELSE CHOOSE p \in later : \A q \in later : p <= q
        valid(s) ==
            /\ s[1] # 0 => next(s, 1) > s[1] + 1
            /\ s[2] # 0 => is(s[2] + 1, "BY") /\ next(s, 2) > s[2] + 2
            /\ s[3] # 0 => is(s[3] + 1, "BY") /\ next(s, 3) > s[3] + 2
            /\ s[4] # 0 => s[4] = n - 1 /\ tail[n] \in DOMAIN DigitValue
            /\ \A j, k \in 1..4 : (j < k /\ s[j] # 0 /\ s[k] # 0) => s[j] < s[k]
            /\ next(s, 0) = 1
        at(word) == {0} \cup {i \in 1..n : is(i, word)}
        splits == {s \in at("WHERE") \X at("GROUP") \X at("ORDER") \X at("LIMIT") :
                     valid(s)}
        \* the order in which the search reaches the splits
        absent(s, k) == IF s[k] = 0 THEN 1 ELSE 0
        length(s, k) == IF s[k] = 0 THEN 0 ELSE next(s, k)
        rank(s) == ((((((absent(s, 1) * 16 + length(s, 1)) * 2 + absent(s, 2)) * 16
                        + length(s, 2)) * 2 + absent(s, 3)) * 16 + length(s, 3)) * 2)
                   + absent(s, 4)
        ast(s) ==
            [table_name |-> table_name, select_all |-> select_all, columns |-> columns,
             where_expr |-> IF s[1] = 0 THEN <<>> ELSE SubSeq(tail, 2, next(s, 1) - 1),
             group_by_columns |->
                 IF s[2] = 0 THEN <<>> ELSE SubSeq(tail, s[2] + 2, next(s, 2) - 1),
             order_by_columns |->
                 IF s[3] = 0 THEN <<>> ELSE SubSeq(tail, s[3] + 2, next(s, 3) - 1),
             limit |-> IF s[4] = 0 THEN 0 ELSE FromBig(FALSE, stoul(<<tail[n]>>).u).v]
        found(r) == ast(CHOOSE s \in splits : rank(s) = r)
    IN  IF splits = {} THEN [ok |-> FALSE, ast |-> [table_name |-> table_name]]
        ELSE [ok |-> TRUE, ast |-> found(firstMatch({rank(s) : s \in splits}))]

\* the select lists of the statements: <<select_all, columns>>
ClauseProjections == { <<TRUE, <<>>>>, <<FALSE, <<Col("a"), Col("b")>>>> }

\* SQLExecutor::execute on a SELECT statement: the parser, then executeSelect
SelectStatement ==
    /\ Running
    /\ \E p \in ClauseProjections, c \in SelectClauses :
         \E parsed \in {parseSelect(ConcTable, p[1], p[2], tailText(c))} :
            IF parsed.ok
            THEN \E r \in selectOutcomes(tables_, parsed.ast) :
                    last' = [r EXCEPT !.ast = [clauses |-> c] @@ parsed.ast]
            ELSE last' = Failure("SELECT", parsed.ast, "InvalidSyntax")
    /\ UNCHANGED <<tables_, dropped, mutex, threads>>

\* the statements run against table t with columns a Int8 and b String
NextSel == Insert \/ SelectStatement

SpecSel == InitConc /\ [][NextSel]_vars

(***************************************************************************)
(* A table dropped and created again, as the insertion benchmark does      *)
(* between its rounds.                                                     *)
(***************************************************************************)
\* executeQuery("DROP TABLE name") and then executeQuery of a CREATE TABLE of
\* the same name; the CREATE's result is kept with what the DROP did
Recreate ==
    /\ Running
    /\ \E name \in TableNames, columns \in CreateColumnLists :
         \E drop \in {executeDropTable(tables_, parseDropTable(<<>>, name))} :
            \E create \in {executeCreateTable(drop.tables,
                              [table_name |-> name, columns |-> columns,
                               engine |-> "Memory"])} :
               /\ tables_' = create.tables
               /\ last' = [create.res EXCEPT
                             !.ast = [drop |-> [success |-> drop.res.success,
                                                storage |-> IF name \in DOMAIN tables_
                                                            THEN <<tables_[name]>>
                                                            ELSE <<>>]]
                                     @@ create.res.ast]
               /\ dropped' = IF create.res.success THEN dropped \ {name}
                             ELSE IF drop.res.success THEN dropped \cup {name}
                             ELSE dropped
    /\ UNCHANGED <<mutex, threads>>

NextDrop == CreateTable \/ Insert \/ Recreate

SpecDrop == Init /\ [][NextDrop]_vars

(***************************************************************************)
(* Properties.                                                             *)
(***************************************************************************)
\* the rows stored in a table: the row counts of its blocks, summed
StoredRows(storage) == countRows(storage.blocks)

\* an INSERT that reaches the fill loop with a value its column's kind cannot take
InsertHasBadValue(tables, ast) ==
    /\ ast.table_name \in DOMAIN tables
    /\ LET structure == tables[ast.table_name].structure
           names     == IF ast.column_names = <<>> THEN schemaColumnNames(structure)
                        ELSE ast.column_names
       IN  /\ \A i \in DOMAIN names : \E j \in DOMAIN structure : structure[j].name = names[i]
           /\ ast.values # <<>>
           /\ \A r \in DOMAIN ast.values : Len(ast.values[r]) = Len(names)
           /\ \A i \in DOMAIN names :
                 getColumnByName(structure, names[i]).type \in InsertableTypes
           /\ \E r \in DOMAIN ast.values, i \in DOMAIN names :
                 ~ConvertValue(getColumnByName(structure, names[i]).type,
                               ast.values[r][i]).ok

\* C1: an INSERT with a value that fails to convert, in any of its rows, returns
\* success=false and stores none of its rows: every table, and so the row count
\* of the target table, is as before the statement.
C1_InsertAllOrNothing ==
    [][ (last'.stmt = "INSERT" /\ InsertHasBadValue(tables_, last'.ast))
            => /\ ~last'.success
               /\ tables_' = tables_
               /\ StoredRows(tables_'[last'.ast.table_name])
                     = StoredRows(tables_[last'.ast.table_name]) ]_vars

\* C1 happens: a two-row INSERT whose first row converts and whose second does
\* not has failed on a table that already holds rows.
C1_Witness ==
    /\ last.stmt = "INSERT"
    /\ last.error = "ValueConversionError"
    /\ InsertHasBadValue(tables_, last.ast)
    /\ Len(last.ast.values) >= 2
    /\ ~InsertHasBadValue(tables_, [last.ast EXCEPT !.values = <<last.ast.values[1]>>])
    /\ StoredRows(tables_[last.ast.table_name]) >= 1

\* C2: CREATE TABLE on a registered name fails, at every attempt and whatever
\* its column list and engine, and leaves the registry, the table's schema and
\* its stored rows as they were.
C2_DuplicateCreateFails ==
    [][ (last'.stmt = "CREATE" /\ last'.ast.table_name \in DOMAIN tables_)
            => /\ ~last'.success
               /\ last'.error = "TableAlreadyExists"
               /\ tables_' = tables_ ]_vars

\* C2 happens: a CREATE TABLE with another column list than the registered
\* table's has failed on a table that holds rows.
C2_Witness ==
    /\ last.stmt = "CREATE"
    /\ ~last.success
    /\ last.ast.table_name \in DOMAIN tables_
    /\ Len(last.ast.columns) # Len(tables_[last.ast.table_name].structure)
    /\ last.ast.engine = "Memory"
    /\ \A i \in DOMAIN last.ast.columns : last.ast.columns[i][2] \in ScalarTypeNames
    /\ StoredRows(tables_[last.ast.table_name]) >= 1

\* C3: INSERT into a name that is not registered fails, does not register the
\* name and leaves every registered table's schema and blocks as they were.
C3_InsertMissingTable ==
    [][ (last'.stmt = "INSERT" /\ last'.ast.table_name \notin DOMAIN tables_)
            => /\ ~last'.success
               /\ last'.error = "TableNotFound"
               /\ DOMAIN tables_' = DOMAIN tables_
               /\ \A n \in DOMAIN tables_ : tables_'[n] = tables_[n] ]_vars

\* C3 happens: an INSERT with well-formed rows has failed on an unregistered
\* name while another table holds rows.
C3_Witness ==
    /\ last.stmt = "INSERT"
    /\ last.error = "TableNotFound"
    /\ last.ast.table_name \notin DOMAIN tables_
    /\ last.ast.values = <<Row1, Row2>>
    /\ \E n \in DOMAIN tables_ : StoredRows(tables_[n]) >= 1

\* the table a SELECT named, when it is registered
SelectsFrom(res) == res.stmt = "SELECT" /\ res.ast.table_name \in DOMAIN tables_

\* the structure has a column of this name whose kind is numeric
HasNumericColumn(structure, name) ==
    \E j \in DOMAIN structure :
        /\ structure[j].name = name
        /\ structure[j].type \in SignedTypes \cup UnsignedTypes \cup FloatTypes

\* the result is one block of one row and one column holding this value
OneValue(res, type, value) ==
    /\ Len(res.blocks) = 1
    /\ Len(res.blocks[1]) = 1
    /\ res.blocks[1][1].type = type
    /\ res.blocks[1][1].data = <<value>>

\* C4: on a table into which successful INSERTs stored N >= 1 rows, however
\* they are split over statements, SELECT COUNT(*) returns one block with one
\* row and one UInt64 column whose value is N.
C4_CountStarIsRowCount ==
    (/\ SelectsFrom(last)
     /\ ~last.ast.select_all
     /\ last.ast.columns = <<Agg("COUNT", "*")>>
     /\ StoredRows(tables_[last.ast.table_name]) >= 1)
        => /\ last.success
           /\ OneValue(last, "UInt64",
                       IntValue(StoredRows(tables_[last.ast.table_name])))

\* C5: on a registered table without rows that has the numeric column a,
\* SELECT COUNT(*), SELECT SUM(a) and SELECT AVG(a) each succeed and return one
\* row whose single value is 0.
C5_EmptyTableAggregatesZero ==
    (/\ SelectsFrom(last)
     /\ ~last.ast.select_all
     /\ last.ast.columns \in {<<Agg("COUNT", "*")>>, <<Agg("SUM", "a")>>,
                              <<Agg("AVG", "a")>>}
     /\ HasNumericColumn(tables_[last.ast.table_name].structure, "a")
     /\ tables_[last.ast.table_name].blocks = <<>>)
        => /\ last.success
           /\ Len(last.blocks) = 1
           /\ Len(last.blocks[1]) = 1
           /\ Len(last.blocks[1][1].data) = 1
           /\ LET v == last.blocks[1][1].data[1]
              IN  IF v.k = "f" THEN v.num = 0 ELSE v.v = 0

\* C6: on a registered table without rows, SELECT MIN(a) and SELECT MAX(a) over
\* the numeric column a return success=false, never a successful result.
C6_EmptyTableMinMaxFails ==
    (/\ SelectsFrom(last)
     /\ ~last.ast.select_all
     /\ last.ast.columns \in {<<Agg("MIN", "a")>>, <<Agg("MAX", "a")>>}
     /\ HasNumericColumn(tables_[last.ast.table_name].structure, "a")
     /\ tables_[last.ast.table_name].blocks = <<>>)
        => ~last.success

\* a SELECT without an aggregate expression
IsProjection(ast) ==
    ast.select_all \/ \A i \in DOMAIN ast.columns : ast.columns[i].agg_type = "NONE"

\* the columns a projection asks for, in the order it asks for them
RequestedColumns(structure, ast) ==
    IF ast.select_all THEN [i \in DOMAIN structure |-> structure[i].name]
    ELSE [i \in DOMAIN ast.columns |-> ast.columns[i].column]

\* the rows of a list of blocks in scan order, each row as the values the
\* block holds under the names asked for
RowsOf(blocks, names) ==
    Flatten([b \in DOMAIN blocks |->
                [r \in 1..getRowCount(blocks[b]) |->
                    [n \in Range(names) |->
                        blockGetColumnByName(blocks[b], n).data[r]]]])

\* C7: a projection SELECT of schema columns with LIMIT n >= 1, on a table
\* holding m > n rows, returns exactly n rows in total, the first n rows in
\* storage scan order.
C7_LimitKeepsFirstRows ==
    (/\ SelectsFrom(last)
     /\ IsProjection(last.ast)
     /\ LET structure == tables_[last.ast.table_name].structure
        IN  \A n \in Range(RequestedColumns(structure, last.ast)) :
                \E j \in DOMAIN structure : structure[j].name = n
     /\ last.ast.limit >= 1
     /\ StoredRows(tables_[last.ast.table_name]) > last.ast.limit)
        => /\ last.success
           /\ countRows(last.blocks) = last.ast.limit
           /\ LET storage == tables_[last.ast.table_name]
                  names   == RequestedColumns(storage.structure, last.ast)
              IN  RowsOf(last.blocks, names)
                     = SubSeq(RowsOf(storage.blocks, names), 1, last.ast.limit)

\* C8: in a successful projection SELECT every returned block has as many
\* columns as the result has column names, and its i-th column is the i-th
\* requested column.
C8_ColumnsInRequestOrder ==
    (/\ SelectsFrom(last)
     /\ last.success
     /\ IsProjection(last.ast))
        => \A b \in DOMAIN last.blocks :
              /\ Len(last.blocks[b]) = Len(last.column_names)
              /\ \A i \in DOMAIN last.blocks[b] :
                    last.blocks[b][i].name =
                        RequestedColumns(tables_[last.ast.table_name].structure,
                                         last.ast)[i]

\* the block's columns are the structure's: as many, each schema name once,
\* each of the schema's kind
MatchesSchema(structure, block) ==
    /\ Len(block) = Len(structure)
    /\ \A j \in DOMAIN structure :
          /\ Cardinality({i \in DOMAIN block : block[i].name = structure[j].name}) = 1
          /\ \A i \in DOMAIN block :
                block[i].name = structure[j].name => block[i].type = structure[j].type

\* C9: MemoryStorage.insert accepts a block only when its columns exactly match
\* the schema, so every stored block has each schema column exactly once.
C9_StoredBlocksMatchSchema ==
    \A n \in DOMAIN tables_ :
        \A b \in DOMAIN tables_[n].blocks :
            MatchesSchema(tables_[n].structure, tables_[n].blocks[b])

\* C10: every execute() call returns a QueryResult and none indexes a vector
\* outside its range.
C10_AlwaysReturnsResult == last.returned /\ ~last.oob

(***************************************************************************)
(* Properties of DROP TABLE.                                               *)
(***************************************************************************)
\* C11: after a successful DROP TABLE t, and until a CREATE TABLE t succeeds,
\* every SELECT, INSERT and DESCRIBE that names t fails with the
\* table-not-found error.
C11_DroppedTableNotFound ==
    (/\ last.stmt \in {"SELECT", "INSERT", "DESCRIBE"}
     /\ last.ast.table_name \in dropped)
        => /\ last.returned
           /\ ~last.success
           /\ last.error = "TableNotFound"

\* C11 happens: a SELECT has failed on a name that was dropped while the
\* other table is still registered and holds rows.
C11_Witness ==
    /\ last.stmt = "SELECT"
    /\ last.ast.table_name \in dropped
    /\ last.error = "TableNotFound"
    /\ \E n \in DOMAIN tables_ : StoredRows(tables_[n]) >= 1

\* the DROP statement's clause is an IF EXISTS clause the parser accepts
CarriesIfExists(ast) == matchesIfExistsGroup(ast.clause)

\* C12: DROP TABLE on a name that is not registered leaves the registry
\* unchanged; it returns success when it carries an IF EXISTS clause, in any
\* letter case the parser accepts, and success=false when it carries none.
C12_DropIfExistsAnyCase ==
    [][ (last'.stmt = "DROP" /\ last'.ast.table_name \notin DOMAIN tables_)
            => /\ tables_' = tables_
               /\ CarriesIfExists(last'.ast) => last'.success
               /\ last'.ast.clause = <<>> => ~last'.success ]_vars

(***************************************************************************)
(* Properties of blocks.                                                   *)
(***************************************************************************)
\* the column lists a storage read is asked for: the schema's and each
\* single column
ReadRequests(structure) ==
    {schemaColumnNames(structure)} \cup {<<structure[j].name>> : j \in DOMAIN structure}

\* C13: every block stored in a table, every block a storage read returns and
\* every block a SELECT returns, with or without LIMIT, has the same length in
\* all of its columns.
C13_BlocksHaveEqualLengths ==
    /\ \A n \in DOMAIN tables_ :
          /\ \A b \in DOMAIN tables_[n].blocks : isValid(tables_[n].blocks[b])
          /\ \A names \in ReadRequests(tables_[n].structure) :
                LET got == read(tables_[n], names)
                IN  \A b \in DOMAIN got.blocks : isValid(got.blocks[b])
    /\ last.stmt = "SELECT" => \A b \in DOMAIN last.blocks : isValid(last.blocks[b])

\* C13 happens: a SELECT with LIMIT has returned, as its last block, the
\* truncated clone of a stored block of two columns.
C13_Witness ==
    /\ SelectsFrom(last)
    /\ last.success
    /\ last.ast.limit >= 1
    /\ last.blocks # <<>>
    /\ LET k      == Len(last.blocks)
           stored == tables_[last.ast.table_name].blocks
       IN  /\ k <= Len(stored)
           /\ Len(last.blocks[k]) = 2
           /\ getRowCount(last.blocks[k]) >= 1
           /\ getRowCount(last.blocks[k]) < getRowCount(stored[k])

(***************************************************************************)
(* Properties of storage growth.                                           *)
(***************************************************************************)
\* SELECT * FROM table_name on the given registry
SelectStar(tables, table_name) ==
    executeSelect(tables, [table_name |-> table_name, select_all |-> TRUE,
                           columns |-> <<>>, limit |-> 0], "garbage")

\* the rows SELECT * returns, in scan order
StarRows(tables, table_name) ==
    RowsOf(SelectStar(tables, table_name).blocks,
           schemaColumnNames(tables[table_name].structure))

IsPrefix(a, b) == Len(a) <= Len(b) /\ SubSeq(b, 1, Len(a)) = a

\* C14: between a table's CREATE and its DROP the rows a SELECT * returns are
\* a prefix, same values in the same order, of the rows any later SELECT *
\* returns: no statement, a SELECT with LIMIT and a failed INSERT included,
\* changes or removes an earlier row.
C14_SelectStarRowsArePrefix ==
    [][ \A n \in DOMAIN tables_ \cap DOMAIN tables_' :
            SelectStar(tables_, n).success
                => /\ SelectStar(tables_', n).success
                   /\ IsPrefix(StarRows(tables_, n), StarRows(tables_', n)) ]_vars

(***************************************************************************)
(* Properties of concurrent calls.                                         *)
(***************************************************************************)
\* the writers whose INSERT returned success
SucceededWriters ==
    {w \in Writers : threads[w].pc = "done" /\ threads[w].res.success}

\* the rows of the INSERT statements of a set of writers
RECURSIVE RowsInsertedBy(_)
RowsInsertedBy(ws) ==
    IF ws = {} THEN 0
    ELSE LET w == CHOOSE w \in ws : TRUE
         IN  Len(threads[w].ast.values) + RowsInsertedBy(ws \ {w})

\* every thread has finished and the main thread has run its COUNT
AllJoined == (\A i \in ThreadIds : threads[i].pc = "done") /\ last.stmt = "SELECT"

\* C15: once all threads that concurrently executed INSERT statements on the
\* table have finished, the table holds exactly one block per INSERT that
\* reported success, and COUNT(*) equals the total number of rows of those
\* INSERTs.
C15_ConcurrentInsertsAllCounted ==
    AllJoined
        => /\ Len(tables_[ConcTable].blocks) = Cardinality(SucceededWriters)
           /\ last.success
           /\ OneValue(last, "UInt64", IntValue(RowsInsertedBy(SucceededWriters)))

\* the registry with only the first k stored blocks of the table
FirstBlocks(k) ==
    [tables_ EXCEPT ![ConcTable].blocks = SubSeq(@, 1, k)]

\* the stored block is the whole block of one writer's INSERT
IsStatementBlock(block) ==
    \E w \in Writers :
        /\ threads[w].pc \in {"unlock", "done"}
        /\ threads[w].res.success
        /\ block = threads[w].block
        /\ getRowCount(block) = Len(threads[w].ast.values)

\* C16: a SELECT that runs concurrently with INSERTs observes of each INSERT
\* either none or all of its rows: what it returns is what the same SELECT
\* returns on the first k complete statement blocks of the table, for some k.
C16_SelectSeesWholeInserts ==
    /\ \A b \in DOMAIN tables_[ConcTable].blocks :
          IsStatementBlock(tables_[ConcTable].blocks[b])
    /\ threads[Reader].pc \in {"unlock", "done"}
          => \E k \in 0..Len(tables_[ConcTable].blocks) :
                 executeSelect(FirstBlocks(k), threads[Reader].ast, "garbage")
                     = threads[Reader].res

\* C16 happens: the reader returned the two rows of the first INSERT while the
\* second writer was between its fill loop and its push_back, and that
\* writer's block is stored now.
C16_Witness ==
    /\ threads[Reader].pc = "done"
    /\ threads[Reader].res.success
    /\ Len(threads[Reader].res.blocks) = 1
    /\ getRowCount(threads[Reader].res.blocks[1]) = 2
    /\ Len(tables_[ConcTable].blocks) = 2

(***************************************************************************)
(* Properties of aggregates over text.                                     *)
(***************************************************************************)
\* the SELECT list is one aggregate call of this function over column b
IsAggregateOverB(ast, agg_types) ==
    /\ ~ast.select_all
    /\ Len(ast.columns) = 1
    /\ ast.columns[1].agg_type \in agg_types
    /\ ast.columns[1].column = "b"

\* the structure's column b is a String column
HasStringColumnB(structure) ==
    \E j \in DOMAIN structure : structure[j].name = "b" /\ structure[j].type = "String"

\* C17: in every state of a table with the String column b, SELECT SUM(b),
\* AVG(b), MIN(b) and MAX(b) return success=false, the aggregate being
\* unsupported for the type, while SELECT COUNT(b) succeeds.
C17_TextAggregatesOnlyCount ==
    (/\ SelectsFrom(last)
     /\ HasStringColumnB(tables_[last.ast.table_name].structure))
        => /\ IsAggregateOverB(last.ast, {"SUM", "AVG", "MIN", "MAX"})
                => ~last.success /\ last.error = "UnsupportedAggregateType"
           /\ IsAggregateOverB(last.ast, {"COUNT"}) => last.success


\* the range of an integer kind, as signed magnitudes
KindMin(type) ==
    CASE type = "Int8"  -> [neg |-> TRUE, mag |-> Words(128)]
      [] type = "Int16" -> [neg |-> TRUE, mag |-> Words(32768)]
      [] type = "Int32" -> [neg |-> TRUE, mag |-> TwoPow31]
      [] type = "Int64" -> [neg |-> TRUE, mag |-> TwoPow63]
      [] OTHER          -> [neg |-> FALSE, mag |-> Zero]

KindMax(type) ==
    [neg |-> FALSE,
     mag |-> CASE type = "Int8"   -> Words(127)
               [] type = "Int16"  -> Words(32767)
               [] type = "Int32"  -> Words(IntMax)
               [] type = "Int64"  -> BigSub(TwoPow63, Words(1))
               [] type = "UInt8"  -> Words(255)
               [] type = "UInt16" -> Words(65535)
               [] type = "UInt32" -> BigSub(TwoPow32, Words(1))
               [] type = "UInt64" -> BigSub(TwoPow64, Words(1))]

\* the literal denotes a value of the column's kind
LiteralFits(type, literal) ==
    IF type = "String" THEN literal.kind = "str"
    ELSE /\ literal.kind = "int"
         /\ SignedLeq(KindMin(type), [neg |-> literal.neg, mag |-> literal.mag])
         /\ SignedLeq([neg |-> literal.neg, mag |-> literal.mag], KindMax(type))

\* the canonical text of a literal's value
CanonicalText(literal) == IF literal.kind = "str" THEN literal.chars ELSE literal.text

\* SELECT a FROM t
SelectA(tables) ==
    executeSelect(tables, [table_name |-> ConcTable, select_all |-> FALSE,
                           columns |-> <<Col("a")>>, limit |-> 0], "garbage")

\* the kind of column a of table t
KindOfA(tables) == tables[ConcTable].structure[1].type

\* C18: after INSERT INTO t VALUES (<literal>) with a literal whose value the
\* kind of column a can represent (integer kinds, negatives included for the
\* signed ones, and String), the INSERT has succeeded and SELECT a FROM t
\* returns as its last row the same value: its text is the literal's canonical text.
C18_InsertReadRoundTrip ==
    ( /\ last.stmt = "INSERT"
      /\ "literal" \in DOMAIN last.ast
      /\ tableExists(tables_, ConcTable)
      /\ LiteralFits(KindOfA(tables_), last.ast.literal) )
    => /\ last.success
       /\ LET r == SelectA(tables_)
          IN  /\ r.success
              /\ r.blocks # <<>>
              /\ LET data == r.blocks[Len(r.blocks)][1].data
                 IN  /\ data # <<>>
                     /\ toString(data[Len(data)]) = CanonicalText(last.ast.literal)

\* the values of column a over all rows of all stored blocks
StoredValuesOfA(tables) == scanColumn(tables[ConcTable].blocks, "a")

\* the sum of the first n values, as a signed magnitude of any size
RECURSIVE ExactSum(_, _)
ExactSum(vs, n) ==
    IF n = 0 THEN [neg |-> FALSE, mag |-> Zero]
    ELSE SignedAdd(ExactSum(vs, n - 1), ToBig(vs[n]))

\* C19: SELECT SUM(a) FROM t over an integer column returns one Int64 value
\* (signed kinds) or one UInt64 value (unsigned kinds) equal to the exact sum
\* of the column's values over all rows of all stored blocks.
C19_SumIsExactAtResultWidth ==
    ( /\ last.stmt = "SELECT"
      /\ last.ast.columns = <<Agg("SUM", "a")>>
      /\ tableExists(tables_, ConcTable)
      /\ KindOfA(tables_) \in SignedTypes \cup UnsignedTypes )
    => /\ last.returned
       /\ last.success
       /\ Len(last.blocks) = 1
       /\ Len(last.blocks[1]) = 1
       /\ last.blocks[1][1].type =
             (IF KindOfA(tables_) \in SignedTypes THEN "Int64" ELSE "UInt64")
       /\ LET vs == StoredValuesOfA(tables_)
              e  == ExactSum(vs, Len(vs))
          IN  last.blocks[1][1].data = <<FromBig(e.neg, e.mag)>>

\* the name of the type a type text writes
TypeNameOf(text) == IF Len(text) = 1 THEN text[1] ELSE NullableName[text[3]]

\* C20: a CREATE TABLE statement for a name that is not registered, whose
\* columns have supported type names (the scalar names and Nullable(X)),
\* succeeds, and DESCRIBE of the table then reports every column with the
\* type name the statement gave it.
C20_CreateAcceptsEveryTypeName ==
    [][ ( /\ last'.stmt = "CREATE"
          /\ "column_texts" \in DOMAIN last'.ast
          /\ ~tableExists(tables_, last'.ast.table_name) )
        => /\ last'.success
           /\ LET texts == last'.ast.column_texts
                  shown == executeDescribe(tables_', [table_name |-> last'.ast.table_name])
              IN  /\ shown.success
                  /\ shown.blocks[1][1].data = [i \in DOMAIN texts |-> StrValue(texts[i][1])]
                  /\ shown.blocks[1][2].data =
                       [i \in DOMAIN texts |-> StrValue(TypeNameOf(texts[i][2]))] ]_vars

(***************************************************************************)
(* Properties of the schema.                                               *)
(***************************************************************************)
\* C21: a CREATE TABLE statement whose parenthesised list holds no
\* (column-name, type-name) pair fails and registers nothing, so that every
\* registered table has at least one column.
C21_CreateWithoutColumnsFails ==
    [][ /\ (last'.stmt = "CREATE" /\ last'.ast.columns = <<>>)
            => (~last'.success /\ tables_' = tables_)
        /\ \A n \in DOMAIN tables_' : getColumnCount(tables_'[n].structure) >= 1 ]_vars

\* the rows DESCRIBE returns for a registered table: <<column name, type name>>
\* per row, in row order
DescribedRows(tables, table_name) ==
    LET res == executeDescribe(tables, [table_name |-> table_name])
    IN  IF res.success /\ Len(res.blocks) = 1 /\ Len(res.blocks[1]) = 2
           /\ res.column_names = <<"column_name", "type">>
           /\ Len(res.blocks[1][1].data) = Len(res.blocks[1][2].data)
        THEN [i \in DOMAIN res.blocks[1][1].data |->
                 <<res.blocks[1][1].data[i].v, res.blocks[1][2].data[i].v>>]
        ELSE <<"no block">>

ShownNames(res) ==
    IF res.success /\ Len(res.blocks) = 1 /\ Len(res.blocks[1]) = 1
       /\ res.column_names = <<"table_name">>
    THEN [i \in DOMAIN res.blocks[1][1].data |-> res.blocks[1][1].data[i].v]
    ELSE <<"no block">>

\* C23: SHOW TABLES returns one single-column block with exactly one row per
\* registered table; a successful CREATE TABLE adds its name to the registered
\* names, a successful DROP TABLE removes its name, and no other statement and
\* no failed statement adds or removes a name.
C23_ShowTablesListsRegistry ==
    [][ /\ DOMAIN tables_' =
              IF last'.stmt = "CREATE" /\ last'.success
              THEN DOMAIN tables_ \cup {last'.ast.table_name}
              ELSE IF last'.stmt = "DROP" /\ last'.success
              THEN DOMAIN tables_ \ {last'.ast.table_name}
              ELSE DOMAIN tables_
        /\ DOMAIN tables_' \cap dropped' = {}
        /\ last'.stmt = "SHOW"
            => /\ Len(ShownNames(last')) = Cardinality(DOMAIN tables_)
               /\ Range(ShownNames(last')) = DOMAIN tables_ ]_vars

\* C23 happens: SHOW TABLES has listed the one table that is left after the
\* other was created and dropped.
C23_Witness ==
    /\ last.stmt = "SHOW"
    /\ DOMAIN tables_ = {"u"}
    /\ dropped = {"t"}
    /\ ShownNames(last) = <<"u">>

(***************************************************************************)
(* Properties of SELECT clauses.                                           *)
(***************************************************************************)
\* the rows of a result in scan order, each row as the values in block order
ResultRows(blocks) ==
    Flatten([b \in DOMAIN blocks |->
                [r \in 1..getRowCount(blocks[b]) |->
                    [i \in DOMAIN blocks[b] |-> blocks[b][i].data[r]]]])

\* what a SELECT statement answers, the statement itself left out
Answer(res) == [res EXCEPT !.ast = <<>>]

\* the answers of the projection written with these clauses
AnswersOf(tables, select_all, columns, c) ==
    LET parsed == parseSelect(ConcTable, select_all, columns, tailText(c))
    IN  IF parsed.ok THEN {Answer(r) : r \in selectOutcomes(tables, parsed.ast)}
        ELSE {Answer(Failure("SELECT", parsed.ast, "InvalidSyntax"))}

\* the clauses without WHERE, GROUP BY and ORDER BY
WithoutClauses(c) == [c EXCEPT !.where = <<>>, !.group = <<>>, !.order = <<>>]

C25_FailedCallChangesNothing ==
    [][ ~last'.success
            => /\ DOMAIN tables_' = DOMAIN tables_
               /\ \A n \in DOMAIN tables_ :
                     /\ tables_'[n].structure = tables_[n].structure
                     /\ tables_'[n].blocks = tables_[n].blocks ]_vars

\* C25 happens: the storage has rejected the block of an INSERT into a table
\* that holds rows.
C25_Witness ==
    /\ last.stmt = "INSERT"
    /\ ~last.success
    /\ last.error = "StorageRejected"
    /\ last.ast.table_name \in DOMAIN tables_
    /\ StoredRows(tables_[last.ast.table_name]) >= 2

(***************************************************************************)
(* Properties of MIN and MAX on tables that hold rows.                     *)
(***************************************************************************)
\* the values stored under a column name, over every row of every block
StoredValues(storage, name) ==
    UNION { Range(blockGetColumnByName(storage.blocks[b], name).data) :
                b \in {i \in DOMAIN storage.blocks : blockHasColumn(storage.blocks[i], name)} }

\* C26: on a table holding at least one row, SELECT MIN(a) (resp. MAX(a)) over
\* the integer column a succeeds and returns one row whose value is the
\* smallest (resp. largest) value of a among all rows of all stored blocks, in
\* a result column of a's kind.
C26_MinMaxOverAllBlocks ==
    (/\ SelectsFrom(last)
     /\ ~last.ast.select_all
     /\ last.ast.columns \in {<<Agg("MIN", "a")>>, <<Agg("MAX", "a")>>}
     /\ \E j \in DOMAIN tables_[last.ast.table_name].structure :
           /\ tables_[last.ast.table_name].structure[j].name = "a"
           /\ tables_[last.ast.table_name].structure[j].type \in SignedTypes \cup UnsignedTypes
     /\ StoredRows(tables_[last.ast.table_name]) >= 1)
        => /\ last.success
           /\ LET storage == tables_[last.ast.table_name]
                  vs      == StoredValues(storage, "a")
              IN  \E m \in vs :
                     /\ \A o \in vs : IF last.ast.columns[1].agg_type = "MIN"
                                      THEN m.v <= o.v ELSE m.v >= o.v
                     /\ OneValue(last, getColumnByName(storage.structure, "a").type, m)

(***************************************************************************)
(* Properties of an INSERT with an explicit column list.                   *)
(***************************************************************************)
\* the list names every column of the structure exactly once
NamesEachColumnOnce(structure, names) ==
    /\ names # <<>>
    /\ Len(names) = Len(structure)
    /\ \A j \in DOMAIN structure :
          Cardinality({i \in DOMAIN names : names[i] = structure[j].name}) = 1

\* a block some INSERT with an explicit column list in another order than the
\* schema's has stored in the table
HoldsReorderedBlock(storage) ==
    \E b \in DOMAIN storage.blocks :
        /\ NamesEachColumnOnce(storage.structure, schemaColumnNames(storage.blocks[b]))
        /\ schemaColumnNames(storage.blocks[b]) # schemaColumnNames(storage.structure)

\* C27: an INSERT whose explicit column list names every schema column exactly
\* once, in any order, and whose values convert, succeeds and stores each value
\* under the column named at its position; a later SELECT * or SELECT of schema
\* columns on the table succeeds and returns, for every row, the values stored
\* under the columns it asked for.
C27_ExplicitListStoresByName ==
    [][ /\ (/\ last'.stmt = "INSERT"
            /\ last'.ast.table_name \in DOMAIN tables_
            /\ NamesEachColumnOnce(tables_[last'.ast.table_name].structure,
                                   last'.ast.column_names)
            /\ last'.ast.values # <<>>
            /\ \A r \in DOMAIN last'.ast.values :
                  Len(last'.ast.values[r]) = Len(last'.ast.column_names)
            /\ ~InsertHasBadValue(tables_, last'.ast))
              => /\ last'.success
                 /\ LET before == tables_[last'.ast.table_name]
                        after  == tables_'[last'.ast.table_name]
                        names  == last'.ast.column_names
                    IN  /\ Len(after.blocks) = Len(before.blocks) + 1
                        /\ \A i \in DOMAIN names :
                              blockGetColumnByName(after.blocks[Len(after.blocks)],
                                                   names[i]).data
                                 = [r \in DOMAIN last'.ast.values |->
                                       ConvertValue(getColumnByName(before.structure,
                                                                    names[i]).type,
                                                    last'.ast.values[r][i]).v]
        /\ (/\ last'.stmt = "SELECT"
            /\ last'.ast.table_name \in DOMAIN tables_'
            /\ IsProjection(last'.ast)
            /\ last'.ast.limit = 0
            /\ LET storage == tables_'[last'.ast.table_name]
               IN  /\ HoldsReorderedBlock(storage)
                   /\ \A n \in Range(RequestedColumns(storage.structure, last'.ast)) :
                         hasColumn(storage.structure, n))
              => /\ last'.success
                 /\ LET storage == tables_'[last'.ast.table_name]
                        names   == RequestedColumns(storage.structure, last'.ast)
                    IN  RowsOf(last'.blocks, names) = RowsOf(storage.blocks, names) ]_vars

(***************************************************************************)
(* Properties of a table created again after its DROP.                     *)
(***************************************************************************)
\* the CREATE TABLE ran right after a DROP TABLE of the same name
FollowsDrop(res) == res.stmt = "CREATE" /\ "drop" \in DOMAIN res.ast

\* C28: after DROP TABLE t succeeds, a following CREATE TABLE t (Memory engine,
\* known column types) succeeds, and the new table holds no rows and has only
\* the newly declared schema: DESCRIBE returns the declared columns and
\* SELECT * returns no row.
C28_RecreatedTableIsFresh ==
    [][ (/\ FollowsDrop(last')
         /\ last'.ast.drop.success
         /\ \A i \in DOMAIN last'.ast.columns : last'.ast.columns[i][2] \in ScalarTypeNames)
            => /\ last'.success
               /\ last'.ast.table_name \in DOMAIN tables_'
               /\ tables_'[last'.ast.table_name].blocks = <<>>
               /\ schemaColumnNames(tables_'[last'.ast.table_name].structure)
                     = [i \in DOMAIN last'.ast.columns |-> last'.ast.columns[i][1]]
               /\ DescribedRows(tables_', last'.ast.table_name) = last'.ast.columns
               /\ LET res == executeSelect(tables_',
                                 [table_name |-> last'.ast.table_name, select_all |-> TRUE,
                                  columns |-> <<>>, limit |-> 0], "garbage")
                  IN  countRows(res.blocks) = 0 ]_vars

\* C28 happens: a table that held rows under two columns was dropped and
\* created again without columns.
C28_Witness ==
    /\ FollowsDrop(last)
    /\ last.success
    /\ last.ast.drop.success
    /\ last.ast.columns = <<>>
    /\ Len(last.ast.drop.storage) = 1
    /\ StoredRows(last.ast.drop.storage[1]) >= 2
    /\ Len(last.ast.drop.storage[1].structure) = 2

(***************************************************************************)
(* Properties of LIMIT 0 and of a LIMIT no smaller than the row count.     *)
(***************************************************************************)
\* C29: a projection SELECT with LIMIT 0, or with LIMIT n where n is at least
\* the table's row count, succeeds and returns every row of the table in scan
\* order, the same answer as the statement without a LIMIT clause.
C29_LimitZeroIsNoLimit ==
    (/\ last.stmt = "SELECT"
     /\ "clauses" \in DOMAIN last.ast
     /\ \/ last.ast.clauses.limit = 0
        \/ last.ast.clauses.limit >= StoredRows(tables_[ConcTable]))
        => /\ last.success
           /\ Answer(last) \in AnswersOf(tables_, last.ast.select_all, last.ast.columns,
                                         [last.ast.clauses EXCEPT !.limit = -1])
           /\ LET storage == tables_[ConcTable]
                  names   == RequestedColumns(storage.structure, last.ast)
              IN  /\ countRows(last.blocks) = StoredRows(storage)
                  /\ RowsOf(last.blocks, names) = RowsOf(storage.blocks, names)

(***************************************************************************)
(* Properties of integer literals outside the column's range.              *)
(***************************************************************************)
\* C30: INSERT INTO t VALUES (<literal>) with an integer literal whose value
\* the integer kind of column a cannot represent fails with the conversion
\* error and stores nothing; no value reduced modulo 2^w is stored.
C30_OutOfRangeLiteralFails ==
    [][ ( /\ last'.stmt = "INSERT"
          /\ "literal" \in DOMAIN last'.ast
          /\ last'.ast.literal.kind = "int"
          /\ tableExists(tables_, ConcTable)
          /\ KindOfA(tables_) \in SignedTypes \cup UnsignedTypes
          /\ ~LiteralFits(KindOfA(tables_), last'.ast.literal) )
        => /\ ~last'.success
           /\ last'.error = "ValueConversionError"
           /\ tables_' = tables_ ]_vars
====
